---- MODULE Spec2Model ----
(***************************************************************************)
(* croj-sandbox: the judge engine.                                         *)
(*                                                                         *)
(*   - LimitedWriter (internal/sandbox/executor.go), the bounded output    *)
(*     sink attached to the child's stdout and stderr;                     *)
(*   - Executor.Execute (internal/sandbox/executor.go) and                 *)
(*     util.MonitorProcess (internal/util/process.go): the child, the      *)
(*     timer goroutine, the sampler goroutine and the verdict;             *)
(*   - Runner.RunWithConfig (internal/sandbox/runner.go): workspace,       *)
(*     compile stage, execute stage, output comparison, deferred cleanup.  *)
(*                                                                         *)
(* Two specifications share the module: SpecSink drives one LimitedWriter  *)
(* with several concurrent writers, Spec drives one RunWithConfig call.    *)
(***************************************************************************)
EXTENDS Integers, Sequences, FiniteSets, TLC

(***************************************************************************)
(* Bounds of the model.                                                    *)
(***************************************************************************)
\* largest cap given to the stand-alone sink of SpecSink
MaxCap == 2
\* longest byte slice handed to one Write call
MaxWriteLen == 2
\* Write calls issued to the stand-alone sink of SpecSink
MaxWrites == 3

Bytes == {"a", "b"}

RECURSIVE SeqsUpTo(_, _)
SeqsUpTo(S, n) ==
    IF n = 0 THEN {<<>>}
    ELSE LET shorter == SeqsUpTo(S, n - 1)
         IN  shorter \cup {Append(s, b) : s \in {t \in shorter : Len(t) = n - 1}, b \in S}

\* the byte slices p a caller may pass to Write (the empty slice included)
Chunks == SeqsUpTo(Bytes, MaxWriteLen)

Writers == {"w1", "w2"}

VARIABLES
    \* ---- SpecSink: one LimitedWriter and its callers ----
    sink,       \* the LimitedWriter: limit, written, Exceeded, buf (the bytes.Buffer under w)
    mu,         \* lw.mu: the writer holding it, or "none"
    wpc,        \* per writer: position inside Write
    wp,         \* per writer: the slice p of the call in progress
    wlen,       \* per writer: the local writeLen
    offered,    \* history: total len(p) over the calls that reached the body of Write
    zeroAtCap,  \* history: some call with len(p) = 0 found remaining <= 0
    calls       \* history: number of Write calls issued

sinkVars == <<sink, mu, wpc, wp, wlen, offered, zeroAtCap, calls>>

(***************************************************************************)
(* LimitedWriter (executor.go:212-251).                                    *)
(***************************************************************************)
\* NewLimitedWriter: a sink with cap limit over an empty bytes.Buffer
NewLimitedWriter(limit) ==
    [limit |-> limit, written |-> 0, Exceeded |-> FALSE, buf |-> <<>>]

\* remaining := lw.limit - lw.written
Remaining(lw) == lw.limit - lw.written

\* writeLen := int64(len(p)); if writeLen > remaining { writeLen = remaining ... }
WriteLen(lw, p) == IF Len(p) > Remaining(lw) THEN Remaining(lw) ELSE Len(p)

\* the Exceeded flag after the checks of one Write call, without the truncation flag
ExceededAfterCheck_NoTruncFlag(lw, p) ==
    IF Remaining(lw) <= 0 THEN TRUE ELSE lw.Exceeded

\* the Exceeded flag after the checks of one Write call:
\* set when the sink is saturated on entry, or when p is truncated
ExceededAfterCheck(lw, p) ==
    IF Remaining(lw) <= 0 THEN TRUE
    ELSE lw.Exceeded \/ Len(p) > Remaining(lw)

\* n, err = lw.w.Write(p[:writeLen]); lw.written += int64(n)
\* (bytes.Buffer.Write stores the whole slice and returns its length, nil)
AppendTo(lw, p, writeLen) ==
    [lw EXCEPT !.buf = @ \o SubSeq(p, 1, writeLen), !.written = @ + writeLen]

\* One whole Write call, as executed under lw.mu
LimitedWriterWrite(lw, p) ==
    IF Remaining(lw) <= 0
    THEN [lw EXCEPT !.Exceeded = ExceededAfterCheck(lw, p)]
    ELSE [AppendTo(lw, p, WriteLen(lw, p)) EXCEPT !.Exceeded = ExceededAfterCheck(lw, p)]

\* the sink after the Write calls ps, in order
RECURSIVE WriteAll(_, _)
WriteAll(lw, ps) ==
    IF ps = <<>> THEN lw ELSE WriteAll(LimitedWriterWrite(lw, Head(ps)), Tail(ps))

(***************************************************************************)
(* Spec: one call of Runner.RunWithConfig.                                 *)
(*                                                                         *)
(* Time is a discrete clock `now`; one unit is one second (the limits of   *)
(* the configuration are whole seconds).  The 10 ms sampling interval and  *)
(* the 100 ms wait for the monitor's stats are below the clock's           *)
(* resolution: a tick of the sampler, and the expiry of the 100 ms wait,   *)
(* may happen at any clock value.  Goroutines may run arbitrarily late.    *)
(***************************************************************************)
\* last value of the clock
MaxTime == 2
\* largest resident memory of the child, in KB
MaxMem == 2
\* cfg.MaxStdoutSize and cfg.MaxStderrSize of the run, in bytes
StdoutCap == 1
StderrCap == 0

\* the bytes the child prints, and the slices the pipe copiers hand to Write
\* (io.Copy never calls Write with an empty slice)
RunChunks == {p \in SeqsUpTo({"a"}, MaxWriteLen) : Len(p) > 0}

\* Write calls per stream in one run
MaxChildWrites == 1
\* what the copier of one stream hands to its sink during the life of the child
WriteSeqs == SeqsUpTo(RunChunks, MaxChildWrites)

\* cfg.DefaultExecuteTimeLimit as RunWithConfig receives it, in seconds: the
\* runs of the model have a limit of one second
TimeLimits == {1}
\* cfg.DefaultExecuteMemoryLimit as RunWithConfig may receive it, in bytes
MemoryLimits == {0, 1024}

VARIABLES
    \* ---- Spec: the main goroutine (RunWithConfig, then Execute inside it) ----
    pc,          \* position of the main goroutine
    result,      \* the Result being built / returned
    dirCreated,  \* SetupHostRunDir created the workspace directory in this call
    dirExists,   \* the workspace directory exists on disk
    cleanups,    \* number of times the deferred cleanup() has run
    removed,     \* the last os.RemoveAll(runDir) returned nil
    compileOutput, \* stdout+stderr of the compile command
    compileErr,  \* RunWithConfig's compileErr: "nil", "timeout", "failed" or "notfound"
    execTimeout, \* Execute's execTimeout, seconds
    memLimitKB,  \* Execute's memLimitKB
    startTime,   \* Execute's startTime
    duration,    \* Execute's duration := time.Since(startTime)
    runErr,      \* what execCmd.Wait() returned
    fallback,    \* procStats is the stats record fabricated after the 100 ms wait
    bothAtVerdict, \* history: procStats had IsTimeout and IsExceeded both set when
                 \* Execute reached line 143
    ctxExpired,  \* ctx.Err() is DeadlineExceeded
    profilesApplied, \* calls of security.SetupSecurity for the child of this run
    \* ---- the child process and its streams ----
    child,       \* state, resident memory (KB), exit code
    stdoutW,     \* LimitedWriter over stdoutBuf
    stderrW,     \* LimitedWriter over stderrBuf
    \* ---- util.MonitorProcess ----
    now,         \* the clock
    mpc,         \* the goroutine of executor.go:107 that calls MonitorProcess
    stats,       \* the shared *ProcessStats (Duration, which only the log and the
                 \* message of the Time Limit Exceeded result read, is left out)
    monTimeout,  \* MonitorProcess's timeoutDuration
    monLimitKB,  \* MonitorProcess's memoryLimitKB
    smu,         \* MonitorProcess's mutex: "none", "timer" or "sampler"
    doneClosed,  \* monitorDone is closed
    tpc,         \* the timer goroutine
    timerAt,     \* when the timer was created
    spc,         \* the sampler goroutine
    memKB        \* the sampler's locals memKB, err of the current tick

runVars == <<pc, result, dirCreated, dirExists, cleanups, removed, compileOutput, compileErr,
             execTimeout, memLimitKB, startTime, duration, runErr, fallback,
             bothAtVerdict, ctxExpired, profilesApplied, child, stdoutW, stderrW, now, mpc, stats,
             monTimeout, monLimitKB, smu, doneClosed, tpc, timerAt, spc, memKB>>

\* the locals of the main goroutine
mainVars == <<pc, result, dirCreated, dirExists, cleanups, removed, compileOutput, compileErr,
              execTimeout, memLimitKB, startTime, duration, runErr, fallback,
              bothAtVerdict>>
\* the locals of the goroutine that calls MonitorProcess, of the timer, of the sampler
monVars == <<mpc, monTimeout, monLimitKB>>
timerVars == <<tpc, timerAt>>
samplerVars == <<spc, memKB>>

\* everything the monitor's goroutines own
monitorAll == <<monVars, timerVars, samplerVars, stats, smu>>

(***************************************************************************)
(* SpecDir: util.SetupHostRunDir called by several runs that share one     *)
(* base directory, each followed by the cleanup closure it returned.       *)
(***************************************************************************)
\* the runs that share cfg.HostTempDir
Runs == {"r1", "r2"}
\* the values uuid.New().String() can return; two of them, so that two calls
\* can draw the same one
RunIDs == {"u1", "u2"}
\* calls of SetupHostRunDir in one behaviour
MaxSetups == 3

VARIABLES
    \* ---- SpecDir ----
    baseExists,  \* baseDir exists on disk
    wsDirs,      \* the run ids whose directory baseDir/<id> exists on disk
    hpc,         \* position of each run inside SetupHostRunDir / its cleanup
    hid,         \* runID of the call in progress, or of the directory the run holds
    setups,      \* number of calls of SetupHostRunDir so far
    returnedExisting, \* history: a call returned a directory that existed before it
    refused      \* history: os.Mkdir failed because the path existed

dirVars == <<baseExists, wsDirs, hpc, hid, setups, returnedExisting, refused>>

(***************************************************************************)
(* SpecCompare: the output comparison step of RunWithConfig on its own,    *)
(* applied to every result Execute can return and every expected output of *)
(* the bounded sets below.                                                 *)
(***************************************************************************)
\* longest stdout and longest expected output
MaxCmpLen == 2
\* the characters of those strings: an ordinary one, a blank, the two line ends
CmpChars == {"a", " ", "\n", "\r"}

VARIABLES
    \* ---- SpecCompare ----
    cmpPc,       \* "ready" before the comparison step, "done" after it
    cmpExec,     \* execResult after line 272: what Execute returned, with CompileOutput
    cmpExpected, \* expectedOutput: a nil pointer, or a string
    cmpResult    \* what RunWithConfig returns

cmpVars == <<cmpPc, cmpExec, cmpExpected, cmpResult>>

(***************************************************************************)
(* SpecNorm: util.NormalizeString applied again to its own result, for     *)
(* every string of the bounded set below.                                  *)
(***************************************************************************)
\* longest string normalized
MaxNormLen == 4
\* the characters of those strings
NormChars == {"a", " ", "\t", "\n", "\r"}
\* applications of NormalizeString in one behaviour
NormApplications == 2

VARIABLES
    \* ---- SpecNorm ----
    normX,       \* the string given to the first call
    normY,       \* the result of the last call (normX before the first)
    normN        \* calls made so far

normVars == <<normX, normY, normN>>

(***************************************************************************)
(* SpecApi: the limits SandboxAPI.Execute computes from a request, and     *)
(* what RunWithConfig and Execute make of them on the way to the monitor.  *)
(* Durations are in seconds.  A byte count is an int64 in two's            *)
(* complement, written as the set of the positions of its one bits, so     *)
(* that products wrap as they do in Go.                                    *)
(***************************************************************************)
\* bits of an int64, and of an int on the 64-bit platforms
WordBits == 64
\* one bits in the memoryLimit of a request
MaxMemBits == 2
\* largest timeout of a request, seconds
MaxReqTimeout == 32
\* customTimeout <= 30*time.Second
MaxCustomTimeout == 30

VARIABLES
    \* ---- SpecApi ----
    apiPc,       \* "ready", "called" (RunWithConfig is being called), "monitored", "rejected"
    apiReq,      \* req.Timeout and req.MemoryLimit: nil, or a value
    apiLang,     \* whether api.cfg.Languages has the language, and its Run.TimeoutSec
    apiCfg,      \* api.cfg's compile timeouts, which customCfg copies, and
                 \* customCfg's DefaultExecuteTimeLimit, DefaultExecuteMemoryLimit,
                 \* UserSpecifiedTimeout
    apiLimits    \* the limits in force: the deadline of ctx, the runner's compile
                 \* timeout, the timeout and the memoryLimitKB MonitorProcess receives

apiVars == <<apiPc, apiReq, apiLang, apiCfg, apiLimits>>

(***************************************************************************)
(* SpecLimits: the limits of one run, from the configuration RunWithConfig *)
(* receives to the arguments of MonitorProcess and the {{MAX_MEM}} of the   *)
(* run command.  Times are in seconds, memory in bytes and KB.             *)
(***************************************************************************)
\* largest cfg.DefaultExecuteTimeLimit, seconds
MaxCfgTime == 3
\* largest Run.TimeoutSec of a language
MaxLangTime == 2
\* largest memory limit of a request and of a language, MB
MaxLimitMB == 2
\* DefaultMemoryLimitMB
DefaultMemoryLimitMB == 512
\* bytes in a MB, KB in a MB
BytesPerMB == 1048576
BytesPerKB == 1024

VARIABLES
    \* ---- SpecLimits ----
    limPc,       \* "ready", "prepared" (runner.go:267 reached), "monitored"
    limIn,       \* the request's memory override, cfg, and the language's Run config
    limOut       \* the run command's MAX_MEM, runCfg.DefaultExecuteTimeLimit, and
                 \* the arguments of MonitorProcess

limVars == <<limPc, limIn, limOut>>

(***************************************************************************)
(* SpecSec: SetupCgroups, RegisterCleanupHandler and Cleanup of package    *)
(* security, called by concurrent runs of one process.  cleanupHandlers is *)
(* a package-level slice that the functions read and write without a lock. *)
(***************************************************************************)
VARIABLES
    \* ---- SpecSec ----
    secPc,       \* position of each run
    cgroupVersion, \* what detectCgroupVersion returns on this host
    cgroupDirs,  \* the group directories that exist, as <<controller, group ID>>;
                 \* the controller is "" for /sys/fs/cgroup/croj/<ID>
    cleanupHandlers, \* the package variable: the managers the handlers close over
    secLocal,    \* the value of cleanupHandlers each run last read
    secHist      \* history: the group IDs whose handler ran, whether a registered
                 \* handler was dropped unrun, whether a Cleanup ran the handler of
                 \* a run whose child was still running, the runs whose
                 \* SetupSecurity returned an error

secVars == <<secPc, cgroupVersion, cgroupDirs, cleanupHandlers, secLocal, secHist>>

(***************************************************************************)
(* SpecTree: one execution whose child may fork descendants and may or may *)
(* not exit on its own; MonitorProcess's timer and sampler,                *)
(* terminateProcessTree, and Execute's Wait, which joins the copiers of    *)
(* the child's stdout and stderr pipes.                                    *)
(***************************************************************************)
\* the processes a child can fork during one execution
Descendants == {"d1", "d2"}
\* the timeout given to MonitorProcess, in clock steps
TreeTimeout == 2

VARIABLES
    \* ---- SpecTree ----
    trPc,        \* Execute: "wait", "verdict", "returned"
    trProcs,     \* per process: state ("none", "alive", "exited" on its own,
                 \* "dead" when killed), parent, whether it holds the write
                 \* ends of the stdout/stderr pipes
    trNow,       \* clock steps since MonitorProcess started
    trMon,       \* position of the timer and of the sampler goroutine
    trMu,        \* holder of MonitorProcess's mutex
    trChildren,  \* terminateProcessTree: the children getChildProcesses listed
                 \* and that are still to be killed, whether the listing
                 \* failed, the children whose Kill returned an error
    trStats,     \* the flags of ProcessStats
    trResult     \* the status Execute returned

treeVars == <<trPc, trProcs, trNow, trMon, trMu, trChildren, trStats, trResult>>

(***************************************************************************)
(* SpecCompileOut: the compile step of RunWithConfig with the compiler's   *)
(* output followed byte by byte.                                           *)
(***************************************************************************)
\* the largest MaxStdoutSize and MaxStderrSize tried, in bytes
MaxCompileCap == 2
\* the most bytes the compiler writes to its two streams together
MaxCompileBytes == 5

VARIABLES
    \* ---- SpecCompileOut ----
    coPc,        \* "running", "returned", "parked"
    coCfg,       \* MaxStdoutSize and MaxStderrSize of the configuration
    coStdout,    \* var stdout bytes.Buffer
    coStderr,    \* var stderr bytes.Buffer
    coErr,       \* compileErr
    coResult     \* what RunWithConfig returns when compileErr != nil

compileOutVars == <<coPc, coCfg, coStdout, coStderr, coErr, coResult>>

(***************************************************************************)
(* SpecSeccomp: the filter ApplySeccompFilters builds for a profile, rule  *)
(* by rule, and what the loaded filter answers to a system call.  Argument *)
(* values and operands are 64-bit words, held as the set of the positions  *)
(* of their one bits.                                                      *)
(***************************************************************************)
VARIABLES
    \* ---- SpecSeccomp ----
    scPc,        \* "new", "allowed", "socket", "exec", "loaded", "failed", "parked"
    scProfile,   \* the SecurityProfile
    scMaskFirst, \* whether the library reads Operand1 of a masked comparison as
                 \* the mask (and Operand2 as the value) or the other way round
    scFilter,    \* the filter: its default action and its rules per system call
    scCall       \* the last system call made under the loaded filter, with the
                 \* action the filter took

seccompVars == <<scPc, scProfile, scMaskFirst, scFilter, scCall>>

(***************************************************************************)
(* SpecMem: Execute from the start of the child to its verdict, with the   *)
(* kernel's high-water mark of the child's resident memory.                *)
(***************************************************************************)
VARIABLES
    hwm          \* largest resident memory the child and its direct children
                 \* have had together since the start of the child, in KB

memVars == <<hwm>>

\* the variables of the single-component specifications
pureVars == <<dirVars, cmpVars, normVars, apiVars, limVars, secVars, treeVars, compileOutVars, seccompVars, memVars>>

\* what every action of SpecMem leaves alone
outsideMem == <<sinkVars, dirVars, cmpVars, normVars, apiVars, limVars, secVars, treeVars, compileOutVars, seccompVars>>

\* what every action of SpecSeccomp leaves alone
outsideSeccomp == <<sinkVars, runVars, dirVars, cmpVars, normVars, apiVars, limVars, secVars, treeVars, compileOutVars, memVars>>

\* what every action of SpecCompileOut leaves alone
outsideCompileOut == <<sinkVars, runVars, dirVars, cmpVars, normVars, apiVars, limVars, secVars, treeVars, seccompVars, memVars>>

\* what every action of SpecTree leaves alone
outsideTree == <<sinkVars, runVars, dirVars, cmpVars, normVars, apiVars, limVars, secVars, compileOutVars, seccompVars, memVars>>

\* what every action of SpecSec leaves alone
outsideSec == <<sinkVars, runVars, dirVars, cmpVars, normVars, apiVars, limVars, treeVars, compileOutVars, seccompVars, memVars>>

\* what every action of SpecLimits leaves alone
outsideLimits == <<sinkVars, runVars, dirVars, cmpVars, normVars, apiVars, secVars, treeVars, compileOutVars, seccompVars, memVars>>

\* what every action of SpecApi leaves alone
outsideApi == <<sinkVars, runVars, dirVars, cmpVars, normVars, limVars, secVars, treeVars, compileOutVars, seccompVars, memVars>>

\* what every action of SpecNorm leaves alone
outsideNorm == <<sinkVars, runVars, dirVars, cmpVars, apiVars, limVars, secVars, treeVars, compileOutVars, seccompVars, memVars>>

\* what every action of SpecCompare leaves alone
outsideCompare == <<sinkVars, runVars, dirVars, normVars, apiVars, limVars, secVars, treeVars, compileOutVars, seccompVars, memVars>>

\* what every action of SpecDir leaves alone
outsideDir == <<sinkVars, runVars, cmpVars, normVars, apiVars, limVars, secVars, treeVars, compileOutVars, seccompVars, memVars>>

vars == <<sinkVars, runVars, pureVars>>

(***************************************************************************)
(* SpecSink: concurrent callers of one LimitedWriter.                      *)
(***************************************************************************)
\* a Write that enters its body without taking lw.mu
SinkLock_NoMutex(w) ==
    /\ wpc[w] = "idle"
    /\ calls < MaxWrites
    /\ \E p \in Chunks : wp' = [wp EXCEPT ![w] = p]
    /\ mu' = w
    /\ wpc' = [wpc EXCEPT ![w] = "check"]
    /\ calls' = calls + 1
    /\ UNCHANGED <<runVars, pureVars, sink, wlen, offered, zeroAtCap>>

\* Write is called with some p; lw.mu.Lock()
SinkLock(w) ==
    /\ wpc[w] = "idle"
    /\ calls < MaxWrites
    /\ mu = "none"
    /\ \E p \in Chunks : wp' = [wp EXCEPT ![w] = p]
    /\ mu' = w
    /\ wpc' = [wpc EXCEPT ![w] = "check"]
    /\ calls' = calls + 1
    /\ UNCHANGED <<runVars, pureVars, sink, wlen, offered, zeroAtCap>>

\* lines 229-241: the saturation check, the truncation of writeLen
SinkCheck(w) ==
    /\ wpc[w] = "check"
    /\ offered' = offered + Len(wp[w])
    /\ sink' = [sink EXCEPT !.Exceeded = ExceededAfterCheck(sink, wp[w])]
    /\ IF Remaining(sink) <= 0
       THEN \* return len(p), nil; the deferred Unlock runs
            /\ zeroAtCap' = (zeroAtCap \/ Len(wp[w]) = 0)
            /\ wpc' = [wpc EXCEPT ![w] = "idle"]
            /\ mu' = "none"
            /\ UNCHANGED wlen
       ELSE /\ wlen' = [wlen EXCEPT ![w] = WriteLen(sink, wp[w])]
            /\ wpc' = [wpc EXCEPT ![w] = "write"]
            /\ UNCHANGED <<mu, zeroAtCap>>
    /\ UNCHANGED <<runVars, pureVars, wp, calls>>

\* lines 243-250: the write to the underlying buffer, the counter, the deferred Unlock
SinkAppend(w) ==
    /\ wpc[w] = "write"
    /\ sink' = AppendTo(sink, wp[w], wlen[w])
    /\ wpc' = [wpc EXCEPT ![w] = "idle"]
    /\ mu' = "none"
    /\ UNCHANGED <<runVars, pureVars, wp, wlen, offered, zeroAtCap, calls>>

\* no Write call is in progress
SinkQuiescent == \A w \in Writers : wpc[w] = "idle"

(***************************************************************************)
(* Result and Status (internal/sandbox/result.go).                         *)
(***************************************************************************)
StatusAccepted            == "Accepted"
StatusWrongAnswer         == "Wrong Answer"
StatusCompileError        == "Compile Error"
StatusRuntimeError        == "Runtime Error"
StatusTimeLimitExceeded   == "Time Limit Exceeded"
StatusMemoryLimitExceeded == "Memory Limit Exceeded"
StatusOutputLimitExceeded == "Output Limit Exceeded"
StatusSandboxError        == "Sandbox Error"
StatusUnknown             == "Unknown"

\* The Error field is modelled as the set of the messages it is composed of.
\* the zero Result
ZeroResult ==
    [Status |-> "", ExitCode |-> 0, Stdout |-> <<>>, Stderr |-> <<>>, Error |-> {},
     TimeUsedMillis |-> 0, MemoryUsedKB |-> 0, CompileOutput |-> ""]

\* NewResult(status, err)
NewResult_ZeroValues(status, err) ==
    [ZeroResult EXCEPT !.Status = status, !.Error = {err}]

NewResult(status, err) ==
    [ZeroResult EXCEPT !.Status = status, !.ExitCode = -1, !.TimeUsedMillis = -1,
                       !.MemoryUsedKB = -1, !.Error = {err}]

\* time.Duration.Milliseconds() of a duration in seconds
Milliseconds(d) == d * 1000

(***************************************************************************)
(* Output comparison (internal/util/tempdir.go:78-100).  A string is a     *)
(* sequence of one-character strings.                                      *)
(***************************************************************************)
\* the characters strings.TrimSpace removes, among those of the model
IsSpace(c) == c \in {" ", "\t", "\n", "\r"}

\* regexp `\r\n|\r` replaced by "\n"
RECURSIVE ReplaceCR(_)
ReplaceCR(s) ==
    IF s = <<>> THEN <<>>
    ELSE IF Head(s) = "\r"
         THEN IF Len(s) >= 2 /\ s[2] = "\n"
              THEN <<"\n">> \o ReplaceCR(SubSeq(s, 3, Len(s)))
              ELSE <<"\n">> \o ReplaceCR(Tail(s))
         ELSE <<Head(s)>> \o ReplaceCR(Tail(s))

RECURSIVE TrimLeft(_)
TrimLeft(s) == IF s # <<>> /\ IsSpace(Head(s)) THEN TrimLeft(Tail(s)) ELSE s

RECURSIVE TrimRight(_)
TrimRight(s) ==
    IF s # <<>> /\ IsSpace(s[Len(s)]) THEN TrimRight(SubSeq(s, 1, Len(s) - 1)) ELSE s

\* strings.TrimSpace
TrimSpace(s) == TrimRight(TrimLeft(s))

\* strings.Split(s, "\n"): the lines, as a sequence of strings
RECURSIVE SplitLines(_)
SplitLines(s) ==
    IF \A i \in 1..Len(s) : s[i] # "\n" THEN <<s>>
    ELSE LET k == CHOOSE i \in 1..Len(s) : s[i] = "\n" /\ \A j \in 1..(i - 1) : s[j] # "\n"
         IN  <<SubSeq(s, 1, k - 1)>> \o SplitLines(SubSeq(s, k + 1, Len(s)))

\* strings.Join(lines, "\n")
RECURSIVE JoinLines(_)
JoinLines(lines) ==
    IF Len(lines) = 0 THEN <<>>
    ELSE IF Len(lines) = 1 THEN lines[1]
    ELSE lines[1] \o <<"\n">> \o JoinLines(Tail(lines))

\* NormalizeString
NormalizeString_ReplaceLast(s) ==
    LET lines == SplitLines(s)
        trimmed == [i \in 1..Len(lines) |-> TrimSpace(lines[i])]
    IN  TrimSpace(ReplaceCR(JoinLines(trimmed)))

NormalizeString(s) ==
    LET lines == SplitLines(ReplaceCR(s))
        trimmed == [i \in 1..Len(lines) |-> TrimSpace(lines[i])]
    IN  TrimSpace(JoinLines(trimmed))

\* CompareOutputs(actual, expected)
CompareOutputs(actual, expected) == NormalizeString(actual) = NormalizeString(expected)

\* the values of expectedOutput tried by the model: a nil pointer, or a string
ExpectedOutputs ==
    {[given |-> FALSE, val |-> <<>>]}
    \cup {[given |-> TRUE, val |-> v] : v \in {<<"a">>, <<"a", "\n">>, <<"a", "a">>}}

(***************************************************************************)
(* Configuration (internal/sandbox/config.go).                             *)
(***************************************************************************)
\* LanguageConfig.GetExecuteTimeout(defaultTimeout, userSpecified), seconds
GetExecuteTimeout_LanguageFirst(langTimeoutSec, defaultTimeout, userSpecified) ==
    IF langTimeoutSec <= 0 THEN defaultTimeout ELSE langTimeoutSec

GetExecuteTimeout(langTimeoutSec, defaultTimeout, userSpecified) ==
    IF userSpecified THEN defaultTimeout
    ELSE IF langTimeoutSec <= 0 THEN defaultTimeout
    ELSE langTimeoutSec

\* Execute: execTimeout := e.cfg.DefaultExecuteTimeLimit; if execTimeout <= 0 { 3s }
EffectiveExecTimeout(t) == IF t <= 0 THEN 3 ELSE t

\* MonitorProcess: if timeoutDuration <= 0 { timeoutDuration = 10s }
MonitorTimeout(t) == IF t <= 0 THEN 10 ELSE t

\* util.ProcessCommandTemplate fails on an empty command and on one without fields
IsBlank(cmd) == \A i \in 1..Len(cmd) : IsSpace(cmd[i])
\* the expanded run commands tried by the model
RunCommands == {<<>>, <<" ">>, <<"r">>}

(***************************************************************************)
(* The child process.                                                      *)
(***************************************************************************)
NoChild == [state |-> "none", mem |-> 0, exitCode |-> 0]

\* the pid is a live or zombie process: proc.Signal(0) succeeds until Wait reaps it
IsProcessRunning(c) == c.state \in {"running", "exited", "killed"}

\* terminateProcessTree(pid): SIGKILL ends a running child; it changes nothing
\* for a child that has already terminated
TerminateProcessTree(c) ==
    IF c.state = "running" THEN [c EXCEPT !.state = "killed", !.mem = 0, !.exitCode = -1] ELSE c

\* the child allocates or frees memory
ChildAlloc ==
    /\ child.state = "running"
    /\ \E m \in 1..MaxMem : m # child.mem /\ child' = [child EXCEPT !.mem = m]
    /\ UNCHANGED <<sinkVars, pureVars, profilesApplied, mainVars, monVars, timerVars, samplerVars, ctxExpired, stdoutW, stderrW, now, stats, smu, doneClosed>>

\* the child exits on its own, with status 0 or 1
ChildExit ==
    /\ child.state = "running"
    /\ \E code \in {0, 1} : child' = [child EXCEPT !.state = "exited", !.mem = 0, !.exitCode = code]
    /\ UNCHANGED <<sinkVars, pureVars, profilesApplied, mainVars, monVars, timerVars, samplerVars, ctxExpired, stdoutW, stderrW, now, stats, smu, doneClosed>>

\* the clock advances; it is followed from the start of the child and while
\* something will still read it: Wait's caller (duration), the timer (its
\* creation and its expiry).  Once monitorDone is closed the timer's select is
\* ready whatever the clock shows, and a later expiry adds no behaviour that
\* an expiry just before the close does not have.
Tick ==
    /\ pc = "wait" \/ (mpc # "idle" /\ ~doneClosed /\ tpc \in {"idle", "spawned", "select"})
    /\ now < MaxTime
    /\ now' = now + 1
    /\ UNCHANGED <<sinkVars, pureVars, profilesApplied, mainVars, monVars, timerVars, samplerVars, ctxExpired, child, stdoutW, stderrW, stats, smu, doneClosed>>

\* the deadline of the caller's context passes, between the start of the child
\* and Execute's test of ctx.Err()
CtxExpire ==
    /\ pc \in {"wait", "collect", "checkTimeout", "checkMemory", "checkContext"}
    /\ ~ctxExpired
    /\ ctxExpired' = TRUE
    /\ UNCHANGED <<sinkVars, pureVars, profilesApplied, mainVars, monVars, timerVars, samplerVars, child, stdoutW, stderrW, now, stats, smu, doneClosed>>

\* exec.CommandContext kills the child once the context is done
CtxKill ==
    /\ ctxExpired
    /\ child.state = "running"
    /\ child' = [child EXCEPT !.state = "killed", !.mem = 0, !.exitCode = -1]
    /\ UNCHANGED <<sinkVars, pureVars, profilesApplied, mainVars, monVars, timerVars, samplerVars, ctxExpired, stdoutW, stderrW, now, stats, smu, doneClosed>>

(***************************************************************************)
(* util.MonitorProcess (internal/util/process.go:27-163).                  *)
(***************************************************************************)
\* stats := &ProcessStats{PID: pid, MemoryKB: -1}
NewProcessStats == [MemoryKB |-> -1, IsExceeded |-> FALSE, IsTimeout |-> FALSE]

\* The goroutine of executor.go:107 calls MonitorProcess, which creates the stats,
\* starts the timer and the sampler goroutines and returns at once.
MonitorCall ==
    /\ mpc = "launched"
    /\ stats' = NewProcessStats
    /\ monTimeout' = MonitorTimeout(execTimeout)
    /\ monLimitKB' = memLimitKB
    /\ tpc' = "spawned"
    /\ spc' = "select"
    /\ mpc' = "returned"
    /\ UNCHANGED <<sinkVars, pureVars, profilesApplied, mainVars, timerAt, memKB, smu, doneClosed, child, stdoutW, stderrW,
                   now, ctxExpired>>

\* resultChan <- procStats (the channel has room for one value)
MonitorSend ==
    /\ mpc = "returned"
    /\ mpc' = "sent"
    /\ UNCHANGED <<sinkVars, pureVars, profilesApplied, mainVars, monTimeout, monLimitKB, timerVars, samplerVars, stats, smu,
                   doneClosed, child, stdoutW, stderrW, now, ctxExpired>>

\* timer := time.NewTimer(timeoutDuration)
TimerArm ==
    /\ tpc = "spawned"
    /\ timerAt' = now
    /\ tpc' = "select"
    /\ UNCHANGED <<sinkVars, pureVars, profilesApplied, mainVars, monVars, samplerVars, stats, smu, doneClosed, child,
                   stdoutW, stderrW, now, ctxExpired>>

\* select: case <-timer.C
TimerFire ==
    /\ tpc = "select"
    /\ now >= timerAt + monTimeout
    /\ tpc' = "lock"
    /\ timerAt' = 0
    /\ UNCHANGED <<sinkVars, pureVars, profilesApplied, mainVars, monVars, samplerVars, stats, smu, doneClosed,
                   child, stdoutW, stderrW, now, ctxExpired>>

\* select: case <-done
TimerCancel ==
    /\ tpc = "select"
    /\ doneClosed
    /\ tpc' = "done"
    /\ timerAt' = 0
    /\ UNCHANGED <<sinkVars, pureVars, profilesApplied, mainVars, monVars, samplerVars, stats, smu, doneClosed,
                   child, stdoutW, stderrW, now, ctxExpired>>

\* a timer that takes the mutex and goes on to the kill without setting the flag
TimerSet_NoFlag ==
    /\ tpc = "lock"
    /\ smu = "none"
    /\ smu' = "timer"
    /\ tpc' = "kill"
    /\ UNCHANGED <<sinkVars, pureVars, profilesApplied, mainVars, monVars, timerAt, samplerVars, doneClosed, child,
                   stdoutW, stderrW, now, ctxExpired, stats>>

\* mutex.Lock(); stats.IsTimeout = true; stats.Duration = elapsed
TimerSet ==
    /\ tpc = "lock"
    /\ smu = "none"
    /\ smu' = "timer"
    /\ stats' = [stats EXCEPT !.IsTimeout = TRUE]
    /\ tpc' = "kill"
    /\ UNCHANGED <<sinkVars, pureVars, profilesApplied, mainVars, monVars, timerAt, samplerVars, doneClosed, child,
                   stdoutW, stderrW, now, ctxExpired>>

\* terminateProcessTree(pid); mutex.Unlock()
TimerKill ==
    /\ tpc = "kill"
    /\ child' = TerminateProcessTree(child)
    /\ smu' = "none"
    /\ tpc' = "done"
    /\ UNCHANGED <<sinkVars, pureVars, profilesApplied, mainVars, monVars, timerAt, samplerVars, stats, doneClosed,
                   stdoutW, stderrW, now, ctxExpired>>

\* select: case <-ticker.C; mutex.Lock(); the checks of lines 98-112
SamplerTick ==
    /\ spc = "select"
    /\ smu = "none"
    /\ IF stats.IsTimeout
       THEN /\ spc' = "done"
            /\ UNCHANGED <<stats, smu>>
       ELSE IF ~IsProcessRunning(child)
       THEN /\ spc' = "done"
            /\ UNCHANGED <<stats, smu>>
       ELSE /\ smu' = "sampler"
            /\ spc' = "sample"
            /\ UNCHANGED stats
    /\ UNCHANGED <<sinkVars, pureVars, profilesApplied, mainVars, monVars, timerVars, memKB, doneClosed, child,
                   stdoutW, stderrW, now, ctxExpired>>

\* memKB, err := getProcessAndChildrenMemoryKB(pid): the status file of a live
\* process gives VmRSS; that of a zombie has none, a reaped pid has no file
SamplerSample ==
    /\ spc = "sample"
    /\ memKB' = IF child.state = "running" THEN [ok |-> TRUE, v |-> child.mem]
                ELSE [ok |-> FALSE, v |-> -1]
    /\ spc' = "update"
    /\ UNCHANGED <<sinkVars, pureVars, profilesApplied, mainVars, monVars, timerVars, stats, smu, doneClosed, child,
                   stdoutW, stderrW, now, ctxExpired>>

\* the locals memKB, err outside a tick
NoSample == [ok |-> FALSE, v |-> -1]

\* the peak after lines 124-126
PeakAfter(st, sample) ==
    IF sample.ok /\ sample.v > st.MemoryKB THEN sample.v ELSE st.MemoryKB

\* the test of line 128 with >= in place of >
OverLimit_AtLimit(limitKB, peak) == limitKB > 0 /\ peak >= limitKB

\* memoryLimitKB > 0 && stats.MemoryKB > memoryLimitKB
OverLimit(limitKB, peak) == limitKB > 0 /\ peak > limitKB

\* lines 124-145: the peak is updated; over the limit, IsExceeded is set
SamplerUpdate ==
    /\ spc = "update"
    /\ LET peak == PeakAfter(stats, memKB)
       IN  IF OverLimit(monLimitKB, peak)
           THEN /\ stats' = [stats EXCEPT !.MemoryKB = peak, !.IsExceeded = TRUE]
                /\ spc' = "kill"
                /\ UNCHANGED smu
           ELSE /\ stats' = [stats EXCEPT !.MemoryKB = peak]
                /\ smu' = "none"
                /\ spc' = "select"
    /\ memKB' = NoSample
    /\ UNCHANGED <<sinkVars, pureVars, profilesApplied, mainVars, monVars, timerVars, doneClosed, child,
                   stdoutW, stderrW, now, ctxExpired>>

\* _ = terminateProcessTree(pid); mutex.Unlock(); return
SamplerKill ==
    /\ spc = "kill"
    /\ child' = TerminateProcessTree(child)
    /\ smu' = "none"
    /\ spc' = "done"
    /\ UNCHANGED <<sinkVars, pureVars, profilesApplied, mainVars, monVars, timerVars, memKB, stats, doneClosed,
                   stdoutW, stderrW, now, ctxExpired>>

\* select: case <-done; the duration is stored under the mutex
SamplerCancel ==
    /\ spc = "select"
    /\ doneClosed
    /\ smu = "none"
    /\ spc' = "done"
    /\ UNCHANGED <<sinkVars, pureVars, profilesApplied, mainVars, monVars, timerVars, memKB, stats, smu, doneClosed, child,
                   stdoutW, stderrW, now, ctxExpired>>

(***************************************************************************)
(* Runner.RunWithConfig (runner.go:137-298) and Executor.Execute           *)
(* (executor.go:32-207), the main goroutine.                               *)
(***************************************************************************)
\* where a return statement of RunWithConfig leads, if cleanup() were called
\* only at the end of the execute path instead of being deferred
DeferredPc_OnlyAfterExecute(created, path) ==
    IF created /\ path = "execute" THEN "cleanup" ELSE "done"

\* where a return statement of RunWithConfig leads: to the deferred cleanup()
\* when line 155 has registered it, else out of the call
DeferredPc(created, path) == IF created THEN "cleanup" ELSE "done"

\* 1. Get Language Configuration (lines 141-147)
RunLookup ==
    /\ pc = "lookup"
    /\ \E ok \in BOOLEAN :
         IF ok
         THEN pc' = "setup" /\ UNCHANGED result
         ELSE /\ result' = NewResult(StatusSandboxError, "language configuration not found")
              /\ pc' = DeferredPc(dirCreated, "lookup")
    /\ UNCHANGED <<sinkVars, pureVars, profilesApplied, dirCreated, dirExists, cleanups, removed, compileOutput, compileErr, execTimeout,
                   memLimitKB, startTime, duration, runErr, fallback, bothAtVerdict, monitorAll,
                   doneClosed, ctxExpired, child, stdoutW, stderrW, now>>

\* 2. util.SetupHostRunDir (lines 149-155; tempdir.go:18-42)
RunSetupDir ==
    /\ pc = "setup"
    /\ \E ok \in BOOLEAN :
         IF ok
         THEN /\ dirCreated' = TRUE
              /\ dirExists' = TRUE
              /\ pc' = "source"
              /\ UNCHANGED result
         ELSE /\ result' = NewResult(StatusSandboxError, "failed to manage host temporary directory")
              /\ pc' = DeferredPc(dirCreated, "setup")
              /\ UNCHANGED <<dirCreated, dirExists>>
    /\ UNCHANGED <<sinkVars, pureVars, profilesApplied, cleanups, removed, compileOutput, compileErr, execTimeout,
                   memLimitKB, startTime, duration, runErr, fallback, bothAtVerdict, monitorAll,
                   doneClosed, ctxExpired, child, stdoutW, stderrW, now>>

\* 3. the source file (lines 157-167)
RunWriteSource ==
    /\ pc = "source"
    /\ \E srcName \in {"", "main.src"}, writeOk \in BOOLEAN :
         IF srcName = ""
         THEN /\ result' = NewResult(StatusSandboxError, "CompileConfig missing SrcName")
              /\ pc' = DeferredPc(dirCreated, "source")
         ELSE IF ~writeOk
         THEN /\ result' = NewResult(StatusSandboxError, "failed to write source file")
              /\ pc' = DeferredPc(dirCreated, "source")
         ELSE pc' = "compile" /\ UNCHANGED result
    /\ UNCHANGED <<sinkVars, pureVars, profilesApplied, dirCreated, dirExists, cleanups, removed, compileOutput, compileErr, execTimeout,
                   memLimitKB, startTime, duration, runErr, fallback, bothAtVerdict, monitorAll,
                   doneClosed, ctxExpired, child, stdoutW, stderrW, now>>

\* the compile diagnostics tried by the model
CompileOutputs == {"", "diagnostics"}

\* compileErr after cmd.Run() and os.Stat(compiledExePath) (lines 207-225)
CompileErr(outcome, binaryExists, isCompiledLang) ==
    IF outcome = "timeout" THEN "timeout"
    ELSE IF outcome = "failed" THEN "failed"
    ELSE IF ~binaryExists /\ isCompiledLang THEN "notfound"
    ELSE "nil"

\* the sentinel a compileErr wraps: ErrCompileTimeout, ErrCompileFailed,
\* ErrBinaryNotFound (executor.go:688-693)
CompileErrMessage(err) ==
    CASE err = "timeout" -> "local compilation timed out"
      [] err = "failed" -> "local compilation failed"
      [] err = "notfound" -> "compiled binary not found"

\* Handle Compile Error Result (lines 231-237)
CompileErrorResult_KeepsErr(err, out) ==
    [NewResult(StatusCompileError, CompileErrMessage(err)) EXCEPT !.CompileOutput = out]

\* lines 231-237 without res.CompileOutput = compileOutput
CompileErrorResult_NoOutput(err, out) ==
    LET res == NewResult(StatusCompileError, CompileErrMessage(err))
    IN  IF err # "timeout" THEN [res EXCEPT !.Error = {out}] ELSE res

CompileErrorResult(err, out) ==
    LET res == [NewResult(StatusCompileError, CompileErrMessage(err))
                   EXCEPT !.CompileOutput = out]
    IN  IF err # "timeout" THEN [res EXCEPT !.Error = {out}] ELSE res

\* if compileErr != nil { ... return res } (lines 231-238): where RunWithConfig
\* goes after the compile step
AfterCompile_NoReturn(err, created) == "prepare"

AfterCompile(err, created) ==
    IF err # "nil" THEN DeferredPc(created, "compile") ELSE "prepare"

\* 4. the compile step and its result (lines 169-238)
RunCompile ==
    /\ pc = "compile"
    /\ \E compileCommand \in {"", "cc"}, exeName \in {"", "main"},
          outcome \in {"timeout", "failed", "ok"}, out \in CompileOutputs,
          binaryExists \in BOOLEAN, isCompiledLang \in BOOLEAN :
         IF compileCommand = ""
         THEN \* Skipping compilation phase
              /\ compileOutput' = ""
              /\ pc' = "prepare"
              /\ UNCHANGED <<result, compileErr>>
         ELSE IF exeName = ""
         THEN /\ result' = NewResult(StatusSandboxError, "CompileCommand but no ExeName")
              /\ pc' = DeferredPc(dirCreated, "compile")
              /\ UNCHANGED <<compileOutput, compileErr>>
         ELSE /\ compileOutput' = out
              /\ compileErr' = CompileErr(outcome, binaryExists, isCompiledLang)
              /\ pc' = AfterCompile(compileErr', dirCreated)
              /\ IF compileErr' # "nil"
                 THEN result' = CompileErrorResult(compileErr', out)
                 ELSE UNCHANGED result
    /\ UNCHANGED <<sinkVars, pureVars, profilesApplied, dirCreated, dirExists, cleanups, removed, execTimeout,
                   memLimitKB, startTime, duration, runErr, fallback, bothAtVerdict, monitorAll,
                   doneClosed, ctxExpired, child, stdoutW, stderrW, now>>

\* 5. the limits, the run command (runner.go:240-271), and Execute up to the
\* creation of the sinks and of execTimeout (executor.go:33-82)
RunPrepare ==
    /\ pc = "prepare"
    /\ \E cmd \in RunCommands, pipeOk \in BOOLEAN, userSpecified \in BOOLEAN,
          langTimeoutSec \in {0, 1}, defaultTime \in TimeLimits, defaultMem \in MemoryLimits :
         IF cmd = <<>> \/ IsBlank(cmd)
         THEN /\ result' = [NewResult(StatusSandboxError, "failed to process run command template")
                              EXCEPT !.CompileOutput = compileOutput]
              /\ pc' = DeferredPc(dirCreated, "prepare")
              /\ UNCHANGED <<execTimeout, memLimitKB, stdoutW, stderrW>>
         ELSE IF ~pipeOk
         THEN \* execCmd.StdinPipe() failed: Execute returns to line 272
              /\ result' = NewResult(StatusSandboxError, "failed to get stdin pipe")
              /\ pc' = "compare"
              /\ UNCHANGED <<execTimeout, memLimitKB, stdoutW, stderrW>>
         ELSE /\ stdoutW' = NewLimitedWriter(StdoutCap)
              /\ stderrW' = NewLimitedWriter(StderrCap)
              /\ execTimeout' = EffectiveExecTimeout(
                                   GetExecuteTimeout(langTimeoutSec, defaultTime, userSpecified))
              /\ memLimitKB' = defaultMem \div 1024
              /\ pc' = "start"
              /\ UNCHANGED result
    /\ UNCHANGED <<sinkVars, pureVars, profilesApplied, dirCreated, dirExists, cleanups, removed, compileOutput, compileErr,
                   startTime, duration, runErr, fallback, bothAtVerdict, monitorAll,
                   doneClosed, ctxExpired, child, now>>

\* startTime := time.Now(); execCmd.Start(); go MonitorProcess(...) (lines 84-111)
ExecStart ==
    /\ pc = "start"
    /\ startTime' = now
    /\ \E ok \in BOOLEAN :
         IF ok
         THEN /\ child' = [state |-> "running", mem |-> 1, exitCode |-> 0]
              /\ mpc' = "launched"
              /\ pc' = "wait"
              /\ UNCHANGED result
         ELSE /\ result' = NewResult(StatusSandboxError, "failed to start command")
              /\ pc' = "compare"
              /\ UNCHANGED <<child, mpc>>
    /\ UNCHANGED <<sinkVars, pureVars, profilesApplied, dirCreated, dirExists, cleanups, removed, compileOutput, compileErr, execTimeout,
                   memLimitKB, duration, runErr, fallback, bothAtVerdict, monTimeout, monLimitKB,
                   timerVars, samplerVars, stats, smu,
                   doneClosed, ctxExpired, stdoutW, stderrW, now>>

\* runErr := execCmd.Wait(); duration := time.Since(startTime) (lines 114-115).
\* Wait joins the two copiers of os/exec, which called Write on the sinks while
\* the child ran; nothing reads a sink before Wait returns, so the calls of the
\* child's whole life are applied here.
ExecWait ==
    /\ pc = "wait"
    /\ child.state \in {"exited", "killed"}
    /\ \E outs \in WriteSeqs, errs \in WriteSeqs :
         /\ stdoutW' = WriteAll(stdoutW, outs)
         /\ stderrW' = WriteAll(stderrW, errs)
    /\ runErr' = IF child.state = "killed" THEN "signal: killed"
                 ELSE IF child.exitCode # 0 THEN "exit status" ELSE "nil"
    /\ child' = [child EXCEPT !.state = "reaped"]
    /\ duration' = now - startTime
    /\ pc' = "collect"
    /\ UNCHANGED <<sinkVars, pureVars, profilesApplied, result, dirCreated, dirExists, cleanups, removed, compileOutput, compileErr,
                   execTimeout, memLimitKB, startTime, fallback, bothAtVerdict, monitorAll,
                   doneClosed, ctxExpired, now>>

\* the stats Execute reads: the shared record, or the one fabricated at line 124
ProcStats ==
    IF fallback
    THEN [MemoryKB |-> -1, IsExceeded |-> FALSE, IsTimeout |-> FALSE]
    ELSE stats

\* result := Result{...} (lines 133-139), from the stats record ps
BuildResult(ps) ==
    [ZeroResult EXCEPT !.ExitCode = 0,
                       !.TimeUsedMillis = Milliseconds(duration),
                       !.MemoryUsedKB = ps.MemoryKB,
                       !.Stdout = stdoutW.buf,
                       !.Stderr = stderrW.buf]

\* select: case stats := <-resultChan; then the result is built (lines 118-139)
ExecCollect ==
    /\ pc = "collect"
    /\ mpc = "sent"
    /\ fallback' = FALSE
    /\ result' = BuildResult(stats)
    /\ pc' = "checkTimeout"
    /\ UNCHANGED <<sinkVars, pureVars, profilesApplied, dirCreated, dirExists, cleanups, removed, compileOutput, compileErr,
                   execTimeout, memLimitKB, startTime, duration, runErr, bothAtVerdict,
                   monitorAll,
                   doneClosed, ctxExpired, child, stdoutW, stderrW, now>>

\* select: case <-time.After(100 * time.Millisecond); then the result is built
ExecCollectFallback ==
    /\ pc = "collect"
    /\ mpc # "sent"
    /\ fallback' = TRUE
    /\ result' = BuildResult([MemoryKB |-> -1])
    /\ pc' = "checkTimeout"
    /\ UNCHANGED <<sinkVars, pureVars, profilesApplied, dirCreated, dirExists, cleanups, removed, compileOutput, compileErr,
                   execTimeout, memLimitKB, startTime, duration, runErr, bothAtVerdict,
                   monitorAll,
                   doneClosed, ctxExpired, child, stdoutW, stderrW, now>>

\* the first verdict check, had it tested the memory flag before the timeout flag
ExecCheckTimeout_MemoryFirst ==
    /\ pc = "checkTimeout"
    /\ bothAtVerdict' = (ProcStats.IsTimeout /\ ProcStats.IsExceeded)
    /\ IF ProcStats.IsExceeded
       THEN /\ result' = [result EXCEPT !.Status = StatusMemoryLimitExceeded,
                                        !.Error = {"Memory limit exceeded"},
                                        !.ExitCode = -1]
            /\ doneClosed' = TRUE
            /\ pc' = "compare"
       ELSE IF ProcStats.IsTimeout
       THEN /\ result' = [result EXCEPT !.Status = StatusTimeLimitExceeded,
                                        !.Error = {"monitor: time limit exceeded"},
                                        !.ExitCode = -1]
            /\ doneClosed' = TRUE
            /\ pc' = "compare"
       ELSE /\ pc' = "checkMemory"
            /\ UNCHANGED <<result, doneClosed>>
    /\ UNCHANGED <<sinkVars, pureVars, profilesApplied, dirCreated, dirExists, cleanups, removed, compileOutput, compileErr, execTimeout,
                   memLimitKB, startTime, duration, runErr, fallback, monitorAll,
                   ctxExpired, child, stdoutW, stderrW, now>>

\* 1. if procStats.IsTimeout (lines 143-149); returning closes monitorDone
ExecCheckTimeout ==
    /\ pc = "checkTimeout"
    /\ bothAtVerdict' = (ProcStats.IsTimeout /\ ProcStats.IsExceeded)
    /\ IF ProcStats.IsTimeout
       THEN /\ result' = [result EXCEPT !.Status = StatusTimeLimitExceeded,
                                        !.Error = {"monitor: time limit exceeded"},
                                        !.ExitCode = -1]
            /\ doneClosed' = TRUE
            /\ pc' = "compare"
       ELSE /\ pc' = "checkMemory"
            /\ UNCHANGED <<result, doneClosed>>
    /\ UNCHANGED <<sinkVars, pureVars, profilesApplied, dirCreated, dirExists, cleanups, removed, compileOutput, compileErr, execTimeout,
                   memLimitKB, startTime, duration, runErr, fallback, monitorAll,
                   ctxExpired, child, stdoutW, stderrW, now>>

\* 2. if procStats.IsExceeded (lines 152-157)
ExecCheckMemory ==
    /\ pc = "checkMemory"
    /\ IF ProcStats.IsExceeded
       THEN /\ result' = [result EXCEPT !.Status = StatusMemoryLimitExceeded,
                                        !.Error = {"Memory limit exceeded"},
                                        !.ExitCode = -1]
            /\ doneClosed' = TRUE
            /\ pc' = "compare"
       ELSE /\ pc' = "checkContext"
            /\ UNCHANGED <<result, doneClosed>>
    /\ UNCHANGED <<sinkVars, pureVars, profilesApplied, dirCreated, dirExists, cleanups, removed, compileOutput, compileErr, execTimeout,
                   memLimitKB, startTime, duration, runErr, fallback, bothAtVerdict, monitorAll,
                   ctxExpired, child, stdoutW, stderrW, now>>

\* outputLimitErr of lines 168-179, as the set of its parts
OutputLimitErr(outExceeded, errExceeded) ==
    (IF outExceeded THEN {"output limit exceeded (stdout)"} ELSE {})
    \cup (IF errExceeded THEN {"output limit exceeded (stderr)"} ELSE {})

\* lines 196-204 left out: a status still empty stays empty
AcceptedOrExit_Skipped(res) == res

\* 6. Set as Accepted if no other status was determined (lines 196-204)
AcceptedOrExit(res) ==
    IF res.Status = ""
    THEN IF res.ExitCode = 0
         THEN [res EXCEPT !.Status = StatusAccepted]
         ELSE [res EXCEPT !.Status = StatusRuntimeError,
                          !.Error = {"Process exited with code"}]
    ELSE res

\* lines 181-194 as the earlier draft of Execute had them (executor.go:359-385):
\* a non-zero exit code replaces Output Limit Exceeded by Runtime Error
OutputAndRunErr_Draft(res, outExceeded, errExceeded, rerr, exitCode) ==
    LET ole == OutputLimitErr(outExceeded, errExceeded)
        r1  == IF ole # {} THEN [res EXCEPT !.Status = StatusOutputLimitExceeded, !.Error = ole]
               ELSE res
        r2  == [r1 EXCEPT !.ExitCode = exitCode]
    IN  IF rerr # "nil" /\ exitCode # 0
        THEN [r2 EXCEPT !.Status = StatusRuntimeError, !.Error = @ \cup {"Runtime error"}]
        ELSE r2

\* 4. output limit, 5. run errors and exit code (lines 167-194)
OutputAndRunErr(res, outExceeded, errExceeded, rerr, exitCode) ==
    LET ole == OutputLimitErr(outExceeded, errExceeded)
        r1  == IF ole # {} THEN [res EXCEPT !.Status = StatusOutputLimitExceeded, !.Error = ole]
               ELSE res
        r2  == [r1 EXCEPT !.ExitCode = exitCode]
    IN  IF rerr # "nil" /\ r2.Status = ""
        THEN [r2 EXCEPT !.Status = StatusRuntimeError, !.Error = {"Runtime error"}]
        ELSE r2

\* 3. if errors.Is(ctx.Err(), context.DeadlineExceeded) (lines 160-165); else
\* the rest of the verdict (lines 167-206), which reads only Execute's locals
\* and the sinks that Wait has left final; returning closes monitorDone
ExecClassify ==
    /\ pc = "checkContext"
    /\ IF ctxExpired
       THEN result' = [result EXCEPT !.Status = StatusTimeLimitExceeded,
                                     !.Error = {"Context deadline exceeded"},
                                     !.ExitCode = -1]
       ELSE result' = AcceptedOrExit(OutputAndRunErr(result, stdoutW.Exceeded,
                                                     stderrW.Exceeded, runErr, child.exitCode))
    /\ doneClosed' = TRUE
    /\ pc' = "compare"
    /\ UNCHANGED <<sinkVars, pureVars, profilesApplied, dirCreated, dirExists, cleanups, removed, compileOutput, compileErr, execTimeout,
                   memLimitKB, startTime, duration, runErr, fallback, bothAtVerdict, monitorAll,
                   ctxExpired, child, stdoutW, stderrW, now>>

\* 6. Output Comparison Step (lines 274-297), applied to execResult
CompareStep_AnyStatus(execResult, expectedOutput) ==
    IF /\ expectedOutput.given
       /\ ~CompareOutputs(execResult.Stdout, expectedOutput.val)
    THEN [execResult EXCEPT !.Status = StatusWrongAnswer, !.Error = {"output mismatch"}]
    ELSE execResult

CompareStep_Normalizing(execResult, expectedOutput) ==
    IF /\ execResult.Status = StatusAccepted
       /\ expectedOutput.given
       /\ ~CompareOutputs(execResult.Stdout, expectedOutput.val)
    THEN [execResult EXCEPT !.Status = StatusWrongAnswer, !.Error = {"output mismatch"},
                            !.Stdout = NormalizeString(execResult.Stdout)]
    ELSE execResult

CompareStep(execResult, expectedOutput) ==
    IF /\ execResult.Status = StatusAccepted
       /\ expectedOutput.given
       /\ ~CompareOutputs(execResult.Stdout, expectedOutput.val)
    THEN [execResult EXCEPT !.Status = StatusWrongAnswer, !.Error = {"output mismatch"}]
    ELSE execResult

\* execResult.CompileOutput = compileOutput; 6. Output Comparison Step (lines 272-297).
\* At pc = "compare" Execute has returned and what it measured is still shown;
\* duration, runErr, the sinks and the exit status go out of scope with this
\* step, the limits of the run are kept.
RunCompare ==
    /\ pc = "compare"
    /\ \E expectedOutput \in ExpectedOutputs :
         result' = CompareStep([result EXCEPT !.CompileOutput = compileOutput],
                               expectedOutput)
    /\ pc' = DeferredPc(dirCreated, "execute")
    /\ startTime' = 0
    /\ duration' = 0
    /\ runErr' = "nil"
    /\ fallback' = FALSE
    /\ stdoutW' = NewLimitedWriter(0)
    /\ stderrW' = NewLimitedWriter(0)
    /\ child' = IF child.state = "reaped" THEN [child EXCEPT !.exitCode = 0] ELSE child
    /\ UNCHANGED <<sinkVars, pureVars, profilesApplied, dirCreated, dirExists, cleanups, removed, compileOutput, compileErr, execTimeout,
                   memLimitKB, bothAtVerdict, monitorAll, doneClosed, ctxExpired, now>>

\* the deferred cleanup(): os.RemoveAll(runDir), whose error is only logged
\* (tempdir.go:33-39)
RunCleanup ==
    /\ pc = "cleanup"
    /\ cleanups' = cleanups + 1
    /\ \E ok \in BOOLEAN :
         /\ removed' = ok
         /\ dirExists' = IF ok THEN FALSE ELSE dirExists
    /\ pc' = "done"
    /\ UNCHANGED <<sinkVars, pureVars, profilesApplied, result, dirCreated, compileOutput, compileErr, execTimeout,
                   memLimitKB, startTime, duration, runErr, fallback, bothAtVerdict, monitorAll,
                   doneClosed, ctxExpired, child, stdoutW, stderrW, now>>

(***************************************************************************)
(* util.SetupHostRunDir and the cleanup closure (SpecDir).                 *)
(***************************************************************************)
\* os.Mkdir(runDir, 0755): one system call, which creates the directory only
\* when nothing exists at the path; ioFails stands for every other failure
Mkdir_All(path, dirs, ioFails) ==
    IF ioFails THEN [ok |-> FALSE, dirs |-> dirs]
    ELSE [ok |-> TRUE, dirs |-> dirs \cup {path}]

Mkdir(path, dirs, ioFails) ==
    IF ioFails \/ path \in dirs THEN [ok |-> FALSE, dirs |-> dirs]
    ELSE [ok |-> TRUE, dirs |-> dirs \cup {path}]

\* runID := uuid.New().String(); runDir = filepath.Join(baseDir, runID)
SetupNewID(r) ==
    /\ hpc[r] = "idle"
    /\ setups < MaxSetups
    /\ \E id \in RunIDs : hid' = [hid EXCEPT ![r] = id]
    /\ hpc' = [hpc EXCEPT ![r] = "mkbase"]
    /\ setups' = setups + 1
    /\ UNCHANGED <<baseExists, wsDirs, returnedExisting, refused, outsideDir>>

\* os.MkdirAll(baseDir, 0755); an error is returned to the caller
SetupMkdirAll(r) ==
    /\ hpc[r] = "mkbase"
    /\ \E ioFails \in BOOLEAN :
          IF ioFails
          THEN /\ hpc' = [hpc EXCEPT ![r] = "idle"]
               /\ hid' = [hid EXCEPT ![r] = "none"]
               /\ UNCHANGED baseExists
          ELSE /\ hpc' = [hpc EXCEPT ![r] = "mkdir"]
               /\ baseExists' = TRUE
               /\ UNCHANGED hid
    /\ UNCHANGED <<wsDirs, setups, returnedExisting, refused, outsideDir>>

\* os.Mkdir(runDir, 0755), then either the error return or the return of
\* runDir with its cleanup closure
SetupMkdir(r) ==
    /\ hpc[r] = "mkdir"
    /\ \E ioFails \in BOOLEAN :
          LET m == Mkdir(hid[r], wsDirs, ioFails) IN
          /\ wsDirs' = m.dirs
          /\ IF m.ok
             THEN /\ hpc' = [hpc EXCEPT ![r] = "held"]
                  /\ returnedExisting' = (returnedExisting \/ hid[r] \in wsDirs)
                  /\ UNCHANGED <<hid, refused>>
             ELSE /\ hpc' = [hpc EXCEPT ![r] = "idle"]
                  /\ hid' = [hid EXCEPT ![r] = "none"]
                  /\ refused' = (refused \/ hid[r] \in wsDirs)
                  /\ UNCHANGED returnedExisting
    /\ UNCHANGED <<baseExists, setups, outsideDir>>

\* cleanup(): os.RemoveAll(runDir); a failure is only logged
SetupCleanup(r) ==
    /\ hpc[r] = "held"
    /\ \E ok \in BOOLEAN :
          wsDirs' = IF ok THEN wsDirs \ {hid[r]} ELSE wsDirs
    /\ hpc' = [hpc EXCEPT ![r] = "idle"]
    /\ hid' = [hid EXCEPT ![r] = "none"]
    /\ UNCHANGED <<baseExists, setups, returnedExisting, refused, outsideDir>>

(***************************************************************************)
(* The output comparison step on its own (SpecCompare).                    *)
(***************************************************************************)
\* the strings of the comparison
CmpStrings == SeqsUpTo(CmpChars, MaxCmpLen)

\* the statuses Execute returns (executor.go:46-204)
ExecuteStatuses ==
    {StatusAccepted, StatusTimeLimitExceeded, StatusMemoryLimitExceeded,
     StatusOutputLimitExceeded, StatusRuntimeError, StatusSandboxError}

\* execResult after line 272, for a status and a captured stdout
ExecResultOf(status, out) ==
    [Status |-> status, ExitCode |-> IF status = StatusAccepted THEN 0 ELSE 1,
     Stdout |-> out, Stderr |-> <<"a", " ">>,
     Error |-> IF status = StatusAccepted THEN {} ELSE {"exit status 1"},
     TimeUsedMillis |-> 1000, MemoryUsedKB |-> 1, CompileOutput |-> "diagnostics"]

\* lines 274-297: the comparison, then return execResult
CompareRun ==
    /\ cmpPc = "ready"
    /\ cmpResult' = CompareStep(cmpExec, cmpExpected)
    /\ cmpPc' = "done"
    /\ UNCHANGED <<cmpExec, cmpExpected, outsideCompare>>

(***************************************************************************)
(* NormalizeString applied to its own result (SpecNorm).                   *)
(***************************************************************************)
\* one more call, on the result of the previous one
NormalizeAgain ==
    /\ normN < NormApplications
    /\ normY' = NormalizeString(normY)
    /\ normN' = normN + 1
    /\ UNCHANGED <<normX, outsideNorm>>

(***************************************************************************)
(* SandboxAPI.Execute: the limits of a request (SpecApi).                  *)
(***************************************************************************)
\* the positions of the bits of a word
BitPositions == 0..(WordBits - 1)

\* the int64 values with at most n one bits
RECURSIVE BitSets(_)
BitSets(n) ==
    IF n = 0 THEN {{}}
    ELSE LET P == BitSets(n - 1) IN P \cup {S \cup {i} : S \in P, i \in BitPositions}

\* x * 2^k in int64 arithmetic: the bits that leave the word are lost
ShiftLeft(x, k) == {i + k : i \in x} \cap BitPositions

\* x < 0, x > 0
IsNegative(x) == (WordBits - 1) \in x
IsPositive(x) == x # {} /\ ~IsNegative(x)

\* x <= y for int64 values
LessEq64(x, y) ==
    IF IsNegative(x) # IsNegative(y) THEN IsNegative(x)
    ELSE LET d == (x \ y) \cup (y \ x)
         IN  d = {} \/ (CHOOSE i \in d : \A j \in d : j <= i) \in y

\* x + 1
Increment(x) ==
    IF BitPositions \subseteq x THEN {}
    ELSE LET k == CHOOSE i \in BitPositions : i \notin x /\ \A j \in 0..(i - 1) : j \in x
         IN  (x \ (0..k)) \cup {k}

\* x / 2^k in Go: the quotient truncated toward zero
DivPow2(x, k) ==
    IF ~IsNegative(x) THEN {i - k : i \in {j \in x : j >= k}}
    ELSE LET floor == {i - k : i \in {j \in x : j >= k}} \cup ((WordBits - k)..(WordBits - 1))
         IN  IF \E j \in x : j < k THEN Increment(floor) ELSE floor

\* 1024 * 1024 and 1024 as powers of two
MBShift == 20
KBShift == 10
\* 4*1024*1024*1024, the bound of api.go:207
FourGB == {32}
\* api.cfg.DefaultExecuteMemoryLimit of DefaultConfig: 512 MB
DefaultMemoryLimit == {29}
\* api.cfg.DefaultExecuteTimeLimit and api.cfg.ExecTimeout of DefaultConfig
DefaultExecuteTimeLimitSec == 3

\* req.Timeout: a nil pointer, or a number of seconds
ReqTimeouts ==
    {[given |-> FALSE, val |-> 0]}
    \cup {[given |-> TRUE, val |-> t] :
             t \in (-1..1) \cup ((MaxCustomTimeout - 1)..MaxReqTimeout)}

\* req.MemoryLimit: a nil pointer, or an int of MB
ReqMemoryLimits ==
    {[given |-> FALSE, val |-> {}]}
    \cup {[given |-> TRUE, val |-> m] : m \in BitSets(MaxMemBits)}

\* api.cfg.DefaultCompileTimeLimit and api.cfg.CompileTimeout of DefaultConfig
DefaultCompileTimeLimitSec == 10
\* the buffer SandboxAPI.Execute adds to the two timeouts, seconds
DeadlineBufferSec == 5

\* api.cfg.Languages[language]: missing, or with Run.TimeoutSec and
\* Compile.TimeoutSec unset or set
ApiLanguages ==
    {[known |-> FALSE, timeoutSec |-> 0, compileTimeoutSec |-> 0],
     [known |-> TRUE, timeoutSec |-> 0, compileTimeoutSec |-> 0],
     [known |-> TRUE, timeoutSec |-> 2, compileTimeoutSec |-> DefaultCompileTimeLimitSec + 2]}

\* LanguageConfig.GetCompileTimeout(defaultTimeout)
GetCompileTimeout(compileTimeoutSec, defaultTimeout) ==
    IF compileTimeoutSec <= 0 THEN defaultTimeout ELSE compileTimeoutSec

\* lines 230-234: the deadline of the context RunWithConfig is called with,
\* seconds after the call
ApiDeadline(cfg, timeout) ==
    LET compileTimeout == IF cfg.CompileTimeout > 0 THEN cfg.CompileTimeout
                          ELSE cfg.DefaultCompileTimeLimit
    IN  compileTimeout + timeout + DeadlineBufferSec

\* lines 178-199: execTimeout and userSpecifiedTimeout
ApiTimeout(lang, timeout) ==
    LET fromConfig == IF lang.known
                      THEN GetExecuteTimeout(lang.timeoutSec, DefaultExecuteTimeLimitSec, FALSE)
                      ELSE DefaultExecuteTimeLimitSec
    IN  IF timeout.given /\ timeout.val > 0 /\ timeout.val <= MaxCustomTimeout
        THEN [execTimeout |-> timeout.val, userSpecified |-> TRUE]
        ELSE [execTimeout |-> fromConfig, userSpecified |-> FALSE]

\* lines 201-213: memoryLimit, bytes
ApiMemoryLimit(memoryLimit) ==
    IF memoryLimit.given /\ IsPositive(memoryLimit.val)
    THEN LET customMemLimit == ShiftLeft(memoryLimit.val, MBShift)
         IN  IF LessEq64(customMemLimit, FourGB) THEN customMemLimit ELSE FourGB
    ELSE DefaultMemoryLimit

\* SandboxAPI.Execute up to the call of RunWithConfig (lines 170-240)
ApiExecute ==
    /\ apiPc = "ready"
    /\ LET t == ApiTimeout(apiLang, apiReq.timeout) IN
         /\ apiCfg' = [apiCfg EXCEPT
                          !.DefaultExecuteTimeLimit = t.execTimeout,
                          !.UserSpecifiedTimeout = t.userSpecified,
                          !.DefaultExecuteMemoryLimit = ApiMemoryLimit(apiReq.memoryLimit)]
         /\ apiLimits' = [apiLimits EXCEPT !.deadline = ApiDeadline(apiCfg, t.execTimeout)]
    /\ apiPc' = "called"
    /\ UNCHANGED <<apiReq, apiLang, outsideApi>>

\* RunWithConfig and Execute as far as the limits go: the language lookup
\* (runner.go:142-147), compileTimeout (runner.go:193, from the configuration
\* the runner was made with, whose DefaultCompileTimeLimit customCfg copies),
\* timeoutDuration (runner.go:246, 267), execTimeout and
\* memLimitKB (executor.go:72-78, 93), MonitorProcess's own default
\* (process.go)
ApiRunLimits ==
    /\ apiPc = "called"
    /\ IF apiLang.known
       THEN /\ apiLimits' =
                 [apiLimits EXCEPT
                    !.compileTimeout = GetCompileTimeout(apiLang.compileTimeoutSec,
                                                         apiCfg.DefaultCompileTimeLimit),
                    !.timeout = MonitorTimeout(EffectiveExecTimeout(
                                   GetExecuteTimeout(apiLang.timeoutSec,
                                                     apiCfg.DefaultExecuteTimeLimit,
                                                     apiCfg.UserSpecifiedTimeout))),
                    !.memoryLimitKB = DivPow2(apiCfg.DefaultExecuteMemoryLimit, KBShift)]
            /\ apiPc' = "monitored"
       ELSE /\ apiPc' = "rejected"
            /\ UNCHANGED apiLimits
    /\ UNCHANGED <<apiReq, apiLang, apiCfg, outsideApi>>

(***************************************************************************)
(* The limits of a run (SpecLimits).                                       *)
(***************************************************************************)
\* LanguageConfig.GetMemoryLimit(defaultLimit), bytes
GetMemoryLimit(langMemoryMB, defaultLimit) ==
    IF langMemoryMB <= 0 THEN defaultLimit ELSE langMemoryMB * BytesPerMB

\* Execute: memLimitKB := e.cfg.DefaultExecuteMemoryLimit / 1024
ExecMemLimitKB(cfgLimit) == cfgLimit \div BytesPerKB

\* cfg.DefaultExecuteMemoryLimit as SandboxAPI.Execute sets it (api.go:202-209),
\* for limits far below 4 GB: the request's limit, or the default
CfgMemoryLimit(override) ==
    IF override.given THEN override.mb * BytesPerMB ELSE DefaultMemoryLimitMB * BytesPerMB

\* the configurations of the model
LimitInputs ==
    {[override |-> o, cfgTime |-> t, userSpecified |-> u, langTimeoutSec |-> lt,
      langMemoryMB |-> lm] :
        o \in {[given |-> FALSE, mb |-> 0]} \cup {[given |-> TRUE, mb |-> m] : m \in 1..MaxLimitMB},
        t \in 0..MaxCfgTime, u \in BOOLEAN, lt \in 0..MaxLangTime,
        lm \in (0..MaxLimitMB) \cup {DefaultMemoryLimitMB}}

\* RunWithConfig, 5. Execute Step, up to NewExecutor (runner.go:242-270)
LimitsPrepare ==
    /\ limPc = "ready"
    /\ limOut' = [limOut EXCEPT
                    !.maxMemoryKB = GetMemoryLimit(limIn.langMemoryMB,
                                                   CfgMemoryLimit(limIn.override)) \div BytesPerKB,
                    !.timeoutDuration = GetExecuteTimeout(limIn.langTimeoutSec, limIn.cfgTime,
                                                          limIn.userSpecified)]
    /\ limPc' = "prepared"
    /\ UNCHANGED <<limIn, outsideLimits>>

\* Execute up to the call of MonitorProcess (executor.go:72-78, 93, 107-111),
\* and MonitorProcess's own default (process.go:40-43)
LimitsMonitor ==
    /\ limPc = "prepared"
    /\ limOut' = [limOut EXCEPT
                    !.monitorTimeout = MonitorTimeout(EffectiveExecTimeout(limOut.timeoutDuration)),
                    !.monitorLimitKB = ExecMemLimitKB(CfgMemoryLimit(limIn.override))]
    /\ limPc' = "monitored"
    /\ UNCHANGED <<limIn, outsideLimits>>

(***************************************************************************)
(* Package security: cgroups and the cleanup registry (SpecSec).           *)
(***************************************************************************)
\* the directories setupCgroupsV1 and setupCgroupsV2 create for a group ID
V1Dirs(id) == {<<c, id>> : c \in {"memory", "cpu", "pids"}}
V2Dirs(id) == {<<"", id>>}
SetupDirs(version, id) == IF version = 2 THEN V2Dirs(id) ELSE V1Dirs(id)

\* the manager both setup functions return
NewManager(id) == [GroupID |-> id, BasePath |-> "/sys/fs/cgroup", Initialized |-> TRUE]

\* CleanupCgroups(manager): the directories left after it
CleanupCgroups(manager, dirs, version) ==
    IF ~manager.Initialized THEN dirs
    ELSE IF manager.BasePath = "/sys/fs/cgroup/unified"
         THEN dirs \ V2Dirs(manager.GroupID)
         ELSE dirs \ V1Dirs(manager.GroupID)

\* the directories left after the handlers of hs have run in order
RECURSIVE RunHandlers(_, _, _)
RunHandlers(hs, dirs, version) ==
    IF hs = <<>> THEN dirs
    ELSE RunHandlers(Tail(hs), CleanupCgroups(Head(hs), dirs, version), version)

\* the group IDs of a slice of handlers
HandlerIDs(hs) == {hs[i].GroupID : i \in 1..Len(hs)}

\* the directories a failed setup leaves: those made before the MkdirAll that
\* failed, or all of them when a later write failed
FailedSetupDirs(version, id) ==
    IF version = 2 THEN {{}, V2Dirs(id)}
    ELSE {{}, {<<"memory", id>>}, {<<"memory", id>>, <<"cpu", id>>}, V1Dirs(id)}

\* SetupSecurity with EnableCgroups: SetupCgroups(cgroupID, pid, profile), the
\* group ID being that of the run's child.  A MkdirAll or a write that fails
\* returns the error with no manager, and SetupSecurity returns it.
SecSetup(r) ==
    /\ secPc[r] = "idle"
    /\ \/ /\ cgroupDirs' = cgroupDirs \cup SetupDirs(cgroupVersion, r)
          /\ secPc' = [secPc EXCEPT ![r] = "setup"]
          /\ UNCHANGED secHist
       \/ \E made \in FailedSetupDirs(cgroupVersion, r) :
             /\ cgroupDirs' = cgroupDirs \cup made
             /\ secPc' = [secPc EXCEPT ![r] = "failed"]
             /\ secHist' = [secHist EXCEPT !.failed = @ \cup {r}]
    /\ UNCHANGED <<cgroupVersion, cleanupHandlers, secLocal, outsideSec>>

\* RegisterCleanupHandler: append reads cleanupHandlers ...
SecRegisterRead(r) ==
    /\ secPc[r] = "setup"
    /\ secLocal' = [secLocal EXCEPT ![r] = cleanupHandlers]
    /\ secPc' = [secPc EXCEPT ![r] = "appending"]
    /\ UNCHANGED <<cgroupVersion, cgroupDirs, cleanupHandlers, secHist, outsideSec>>

\* ... and the result is stored; then ApplySeccompFilters(profile), whose
\* error SetupSecurity returns.  Without one the child of the run is running
\* from here on.
SecRegisterWrite(r) ==
    /\ secPc[r] = "appending"
    /\ cleanupHandlers' = Append(secLocal[r], NewManager(r))
    /\ \E ok \in BOOLEAN :
         /\ secHist' = [secHist EXCEPT
                          !.dropped = @ \/ ~(HandlerIDs(cleanupHandlers) \subseteq
                                               HandlerIDs(cleanupHandlers')),
                          !.failed = IF ok THEN @ ELSE @ \cup {r}]
         /\ secPc' = [secPc EXCEPT ![r] = IF ok THEN "running" ELSE "failed"]
    /\ UNCHANGED <<cgroupVersion, cgroupDirs, secLocal, outsideSec>>

\* Cleanup(), called by a run whose child has exited or whose SetupSecurity
\* returned an error: the range loop over the slice as it is now
SecCleanupRun(r) ==
    /\ secPc[r] \in {"running", "failed"}
    /\ secLocal' = [secLocal EXCEPT ![r] = cleanupHandlers]
    /\ cgroupDirs' = RunHandlers(cleanupHandlers, cgroupDirs, cgroupVersion)
    /\ secHist' = [secHist EXCEPT
                     !.ran = @ \cup HandlerIDs(cleanupHandlers),
                     !.foreign = @ \/ \E q \in HandlerIDs(cleanupHandlers) :
                                         q # r /\ secPc[q] = "running"]
    /\ secPc' = [secPc EXCEPT ![r] = "resetting"]
    /\ UNCHANGED <<cgroupVersion, cleanupHandlers, outsideSec>>

\* Cleanup(): cleanupHandlers = nil
SecCleanupReset(r) ==
    /\ secPc[r] = "resetting"
    /\ cleanupHandlers' = <<>>
    /\ secHist' = [secHist EXCEPT
                     !.dropped = @ \/ ~(HandlerIDs(cleanupHandlers) \subseteq
                                          HandlerIDs(secLocal[r]))]
    /\ secPc' = [secPc EXCEPT ![r] = "done"]
    /\ UNCHANGED <<cgroupVersion, cgroupDirs, secLocal, outsideSec>>

(***************************************************************************)
(* The process tree of one execution (SpecTree).                           *)
(***************************************************************************)
TreeProcs == {"main"} \cup Descendants

NoProc == [state |-> "none", ppid |-> "none", holds |-> FALSE]

\* the processes after those of ps have died: their pipe ends are closed and
\* their children are reparented to init
AfterDeath(procs, ps) ==
    [p \in TreeProcs |->
        IF p \in ps /\ procs[p].state = "alive"
        THEN [procs[p] EXCEPT !.state = "dead", !.holds = FALSE]
        ELSE IF procs[p].state = "alive" /\ procs[p].ppid \in ps
                  /\ procs[procs[p].ppid].state = "alive"
             THEN [procs[p] EXCEPT !.ppid = "init"]
             ELSE procs[p]]

\* getChildProcesses(pid): the processes whose parent is pid
GetChildProcesses(procs, pid) ==
    {p \in TreeProcs : procs[p].state = "alive" /\ procs[p].ppid = pid}

\* the copiers of os/exec reach end of file once no process holds a write end
PipesClosed(procs) == \A p \in TreeProcs : ~procs[p].holds

\* a live process forks; the new process inherits stdout and stderr
TreeFork(p, d) ==
    /\ trProcs[p].state = "alive"
    /\ trProcs[d].state = "none"
    /\ trProcs' = [trProcs EXCEPT ![d] = [state |-> "alive", ppid |-> p, holds |-> TRUE]]
    /\ UNCHANGED <<trPc, trNow, trMon, trMu, trChildren, trStats, trResult, outsideTree>>

\* a descendant closes its copies of stdout and stderr
TreeClose(d) ==
    /\ trProcs[d].state = "alive"
    /\ trProcs[d].holds
    /\ trProcs' = [trProcs EXCEPT ![d].holds = FALSE]
    /\ UNCHANGED <<trPc, trNow, trMon, trMu, trChildren, trStats, trResult, outsideTree>>

\* the processes after p has exited on its own
AfterExit(procs, p) ==
    [AfterDeath(procs, {p}) EXCEPT ![p].state = "exited"]

\* a process exits on its own
TreeExit(p) ==
    /\ trProcs[p].state = "alive"
    /\ trProcs' = AfterExit(trProcs, p)
    /\ UNCHANGED <<trPc, trNow, trMon, trMu, trChildren, trStats, trResult, outsideTree>>

\* the clock advances until the timer expires
TreeTick ==
    /\ trNow < TreeTimeout
    /\ trNow' = trNow + 1
    /\ UNCHANGED <<trPc, trProcs, trMon, trMu, trChildren, trStats, trResult, outsideTree>>

\* timer goroutine: case <-timer.C; mutex.Lock(); stats.IsTimeout = true
TreeTimerFire ==
    /\ trMon["timer"] = "select"
    /\ trNow = TreeTimeout
    /\ trMu = "none"
    /\ trMu' = "timer"
    /\ trStats' = [trStats EXCEPT !.IsTimeout = TRUE]
    /\ trMon' = [trMon EXCEPT !["timer"] = "list"]
    /\ UNCHANGED <<trPc, trProcs, trNow, trChildren, trResult, outsideTree>>

\* timer goroutine: case <-done, after Execute has returned
TreeTimerCancel ==
    /\ trMon["timer"] = "select"
    /\ trPc = "returned"
    /\ trMon' = [trMon EXCEPT !["timer"] = "done"]
    /\ UNCHANGED <<trPc, trProcs, trNow, trMu, trChildren, trStats, trResult, outsideTree>>

\* sampler goroutine: a tick finds the process running and the memory of the
\* tree above the limit; stats.IsExceeded = true
TreeSamplerExceed ==
    /\ trMon["sampler"] = "select"
    /\ trMu = "none"
    /\ ~trStats.IsTimeout
    /\ trPc = "wait"
    /\ trProcs["main"].state = "alive"
    /\ trMu' = "sampler"
    /\ trStats' = [trStats EXCEPT !.IsExceeded = TRUE]
    /\ trMon' = [trMon EXCEPT !["sampler"] = "list"]
    /\ UNCHANGED <<trPc, trProcs, trNow, trChildren, trResult, outsideTree>>

\* a sampler whose select has no <-done case and whose tick does not test
\* isProcessRunning
TreeSamplerStop_OnlyOnTimeout ==
    /\ trMon["sampler"] = "select"
    /\ trMu = "none"
    /\ trStats.IsTimeout
    /\ trMon' = [trMon EXCEPT !["sampler"] = "done"]
    /\ UNCHANGED <<trPc, trProcs, trNow, trMu, trChildren, trStats, trResult, outsideTree>>

\* sampler goroutine: a tick finds IsTimeout set or the child reaped, or the
\* select takes <-done
TreeSamplerStop ==
    /\ trMon["sampler"] = "select"
    /\ trMu = "none"
    /\ trStats.IsTimeout \/ trPc # "wait"
    /\ trMon' = [trMon EXCEPT !["sampler"] = "done"]
    /\ UNCHANGED <<trPc, trProcs, trNow, trMu, trChildren, trStats, trResult, outsideTree>>

\* no call of terminateProcessTree has listed anything yet
NoChildren == [listed |-> {}, err |-> FALSE, failed |-> {}]

\* terminateProcessTree: children, err := getChildProcesses(pid); when the
\* listing fails the loop over the children is skipped
TreeList(g) ==
    /\ trMon[g] = "list"
    /\ \E err \in BOOLEAN :
         trChildren' = [listed |-> IF err THEN {} ELSE GetChildProcesses(trProcs, "main"),
                        err |-> err, failed |-> {}]
    /\ trMon' = [trMon EXCEPT ![g] = "kill"]
    /\ UNCHANGED <<trPc, trProcs, trNow, trMu, trStats, trResult, outsideTree>>

\* terminateProcessTree: proc.Kill() of one listed child; an error is logged
\* and the loop goes on
TreeKillChild(g) ==
    /\ trMon[g] = "kill"
    /\ \E c \in trChildren.listed, ok \in BOOLEAN :
         IF ok
         THEN /\ trProcs' = AfterDeath(trProcs, {c})
              /\ trChildren' = [trChildren EXCEPT !.listed = @ \ {c}]
         ELSE /\ trChildren' = [trChildren EXCEPT !.listed = @ \ {c},
                                                  !.failed = @ \cup {c}]
              /\ UNCHANGED trProcs
    /\ UNCHANGED <<trPc, trNow, trMon, trMu, trStats, trResult, outsideTree>>

\* a terminateProcessTree that returns without killing pid when the listing or
\* the kill of a child failed
KillParent_UnlessFailed(procs, children) ==
    IF children.err \/ children.failed # {} THEN procs ELSE AfterDeath(procs, {"main"})

\* terminateProcessTree: the Kill of pid, after the loop
KillParent(procs, children) == AfterDeath(procs, {"main"})

\* terminateProcessTree: the main process is killed once the loop over the
\* listed children has ended; mutex.Unlock()
TreeKillParent(g) ==
    /\ trMon[g] = "kill"
    /\ trChildren.listed = {}
    /\ trProcs' = KillParent(trProcs, trChildren)
    /\ trMu' = "none"
    /\ trMon' = [trMon EXCEPT ![g] = "done"]
    /\ UNCHANGED <<trPc, trNow, trChildren, trStats, trResult, outsideTree>>

\* execCmd.Wait(): the child has terminated and both copiers have finished
TreeWait ==
    /\ trPc = "wait"
    /\ trProcs["main"].state \in {"dead", "exited"}
    /\ PipesClosed(trProcs)
    /\ trPc' = "verdict"
    /\ UNCHANGED <<trProcs, trNow, trMon, trMu, trChildren, trStats, trResult, outsideTree>>

\* the verdict: the checks of IsTimeout and IsExceeded, in that order, then
\* those of the context, the sinks and runErr, which give one of the other
\* verdicts of Execute; the deferred close(monitorDone)
TreeVerdict ==
    /\ trPc = "verdict"
    /\ \E other \in {StatusTimeLimitExceeded, StatusOutputLimitExceeded,
                      StatusRuntimeError, StatusAccepted} :
         trResult' = IF trStats.IsTimeout THEN StatusTimeLimitExceeded
                     ELSE IF trStats.IsExceeded THEN StatusMemoryLimitExceeded
                     ELSE other
    /\ trPc' = "returned"
    /\ UNCHANGED <<trProcs, trNow, trMon, trMu, trChildren, trStats, outsideTree>>

(***************************************************************************)
(* The compiler's output (SpecCompileOut).                                 *)
(***************************************************************************)
\* bytes.Buffer.Write(p): the buffer grows as needed and takes all of p
BufferWrite(buf, p) == buf \o p

\* compileOutput = stdout.String() + stderr.String()
CompileOutputOf(stdout, stderr) == stdout \o stderr

\* the compiler writes one byte to stdout or to stderr (cmd.Stdout = &stdout,
\* cmd.Stderr = &stderr)
CoWrite ==
    /\ coPc = "running"
    /\ Len(coStdout) + Len(coStderr) < MaxCompileBytes
    /\ \/ coStdout' = BufferWrite(coStdout, <<"o">>) /\ UNCHANGED coStderr
       \/ coStderr' = BufferWrite(coStderr, <<"e">>) /\ UNCHANGED coStdout
    /\ UNCHANGED <<coPc, coCfg, coErr, coResult, outsideCompileOut>>

\* cmd.Run() returns; compileErr is determined and, if it is not nil, the
\* Compile Error result is built
CoReturn ==
    /\ coPc = "running"
    /\ \E outcome \in {"ok", "failed", "timeout"}, binaryExists \in BOOLEAN,
          isCompiledLang \in BOOLEAN :
         LET err == CompileErr(outcome, binaryExists, isCompiledLang)
             out == CompileOutputOf(coStdout, coStderr)
         IN  /\ coErr' = err
             /\ coResult' = IF err # "nil" THEN CompileErrorResult(err, out)
                            ELSE ZeroResult
    /\ coPc' = "returned"
    /\ UNCHANGED <<coCfg, coStdout, coStderr, outsideCompileOut>>

(***************************************************************************)
(* security.ApplySeccompFilters (seccomp.go:11-97) and the filter of       *)
(* libseccomp (SpecSeccomp).                                               *)
(***************************************************************************)
\* the system calls the model follows; "ptrace" is on no list
Syscalls == {"read", "socket", "execve", "ptrace"}

\* GetDefaultAllowedSyscalls(), restricted to the system calls of the model:
\* execve and ptrace are not on the list, socket is
GetDefaultAllowedSyscalls == <<"read", "socket">>

\* the values of profile.AllowedSyscalls tried; empty selects the default list
SyscallLists == {<<>>, <<"read">>, <<"read", "socket">>, <<"read", "execve">>}

\* address families, as words: AF_UNIX = 1, AF_INET = 2, AF_AX25 = 3,
\* AF_INET6 = 10
AF_UNIX == {0}
Families == {{0}, {1}, {0, 1}, {1, 3}}

\* 0xFFFFFFFF
Operand2Mask == {b \in 0..63 : b < 32}

\* seccomp.NewFilter(defaultAction)
NewFilter(defaultAction) ==
    [default |-> defaultAction,
     rules |-> [c \in Syscalls |-> [action |-> "none", chains |-> <<>>]]]

\* whether a condition on argument 0 holds for the value arg
ConditionHolds(cond, arg, maskFirst) ==
    CASE cond.Op = "CompareMaskedEqual" ->
             IF maskFirst THEN (arg \cap cond.Operand1) = cond.Operand2
             ELSE (arg \cap cond.Operand2) = cond.Operand1
      [] cond.Op = "CompareNotEqual" -> arg # cond.Operand1

\* filter.AddRule(call, action): a rule with the filter's default action is
\* refused; a system call that has an unconditional rule keeps it; otherwise
\* the rule becomes the system call's unconditional rule and replaces its
\* conditional ones.  The caller ignores or only logs the error.
AddRule(filter, call, action) ==
    IF action = filter.default \/ filter.rules[call].action # "none" THEN filter
    ELSE [filter EXCEPT !.rules[call] = [action |-> action, chains |-> <<>>]]

\* filter.AddRuleConditional(call, action, conds): refused with the default
\* action; without effect on a system call that has an unconditional rule
AddRuleConditional(filter, call, action, cond) ==
    IF action = filter.default \/ filter.rules[call].action # "none" THEN filter
    ELSE [filter EXCEPT !.rules[call].chains =
                            Append(@, [action |-> action, cond |-> cond])]

\* the action a loaded filter takes for a system call with argument 0 = arg
FilterAction(filter, call, arg, maskFirst) ==
    LET r == filter.rules[call]
        hits == {i \in 1..Len(r.chains) : ConditionHolds(r.chains[i].cond, arg, maskFirst)}
    IN  IF r.action # "none" THEN r.action
        ELSE IF hits # {} THEN r.chains[CHOOSE i \in hits : \A j \in hits : i <= j].action
        ELSE filter.default

\* for _, syscallName := range allowedSyscalls { filter.AddRule(id, ActAllow) }
RECURSIVE AddAllowList(_, _)
AddAllowList(filter, names) ==
    IF names = <<>> THEN filter
    ELSE AddAllowList(AddRule(filter, Head(names), "ActAllow"), Tail(names))

\* lines 12-43: the filter with the allow-list
ScAllowList ==
    /\ scPc = "new"
    /\ LET defaultAction == IF scProfile.SeccompMode = "strict" THEN "ActKill" ELSE "ActErrno"
           allowedSyscalls == IF Len(scProfile.AllowedSyscalls) = 0
                              THEN GetDefaultAllowedSyscalls
                              ELSE scProfile.AllowedSyscalls
       IN  scFilter' = AddAllowList(NewFilter(defaultAction), allowedSyscalls)
    /\ scPc' = "allowed"
    /\ UNCHANGED <<scProfile, scMaskFirst, scCall, outsideSeccomp>>

\* lines 46-77: the two conditional rules on socket
ScSocketRules ==
    /\ scPc = "allowed"
    /\ scFilter' =
         IF scProfile.DisableNetwork
         THEN AddRuleConditional(
                  AddRuleConditional(scFilter, "socket", "ActAllow",
                      [Op |-> "CompareMaskedEqual", Operand1 |-> AF_UNIX,
                       Operand2 |-> Operand2Mask]),
                  "socket", "ActErrno",
                  [Op |-> "CompareNotEqual", Operand1 |-> AF_UNIX,
                   Operand2 |-> Operand2Mask])
         ELSE scFilter
    /\ scPc' = "socket"
    /\ UNCHANGED <<scProfile, scMaskFirst, scCall, outsideSeccomp>>

\* lines 80-90: execve (and execveat)
ScExecRules ==
    /\ scPc = "socket"
    /\ scFilter' = IF scProfile.DisableExec
                   THEN AddRule(scFilter, "execve", "ActErrno")
                   ELSE scFilter
    /\ scPc' = "exec"
    /\ UNCHANGED <<scProfile, scMaskFirst, scCall, outsideSeccomp>>

\* the process that calls SetupSecurity, and the one its pid argument names
Processes == {"supervisor", "child"}

\* filter.Load() installs the filter in the process that calls it, and
\* ApplySeccompFilters(profile) is called by SetupSecurity without the pid
\* (security.go:121)
LoadedIn == "supervisor"

\* what the kernel answers to a system call of process by
SyscallAction(by, filter, call, arg, maskFirst) ==
    IF by = LoadedIn THEN FilterAction(filter, call, arg, maskFirst) ELSE "ActAllow"

\* lines 93-96: filter.Load()
ScLoad ==
    /\ scPc = "exec"
    /\ \E ok \in BOOLEAN : scPc' = IF ok THEN "loaded" ELSE "failed"
    /\ UNCHANGED <<scProfile, scMaskFirst, scFilter, scCall, outsideSeccomp>>

\* a process makes a system call after the filter was loaded
ScSyscall ==
    /\ scPc = "loaded"
    /\ \E by \in Processes, call \in Syscalls, arg \in Families :
         scCall' = [by |-> by, name |-> call, arg |-> arg,
                    action |-> SyscallAction(by, scFilter, call, arg, scMaskFirst)]
    /\ UNCHANGED <<scPc, scProfile, scMaskFirst, scFilter, outsideSeccomp>>

(***************************************************************************)
(* The child's memory with its high-water mark (SpecMem).                  *)
(***************************************************************************)
\* the child allocates or frees memory; the high-water mark follows
MemChildAlloc ==
    /\ child.state = "running"
    /\ \E m \in 1..MaxMem :
         /\ m # child.mem
         /\ child' = [child EXCEPT !.mem = m]
         /\ hwm' = IF m > hwm THEN m ELSE hwm
    /\ UNCHANGED <<outsideMem, profilesApplied, mainVars, monVars, timerVars, samplerVars, ctxExpired, stdoutW, stderrW, now, stats, smu, doneClosed>>

(***************************************************************************)
(* The specifications.                                                     *)
(***************************************************************************)
\* the variables of SpecSink while Spec runs
SinkParked ==
    /\ sink = NewLimitedWriter(0)
    /\ mu = "none"
    /\ wpc = [w \in Writers |-> "idle"]
    /\ wp = [w \in Writers |-> <<>>]
    /\ wlen = [w \in Writers |-> 0]
    /\ offered = 0
    /\ zeroAtCap = FALSE
    /\ calls = 0

\* the state before RunWithConfig is called
RunInit ==
    /\ pc = "lookup"
    /\ result = ZeroResult
    /\ dirCreated = FALSE
    /\ dirExists = FALSE
    /\ cleanups = 0
    /\ removed = FALSE
    /\ compileOutput = ""
    /\ compileErr = "nil"
    /\ execTimeout = 0
    /\ memLimitKB = 0
    /\ startTime = 0
    /\ duration = 0
    /\ runErr = "nil"
    /\ fallback = FALSE
    /\ bothAtVerdict = FALSE
    /\ ctxExpired = FALSE
    /\ profilesApplied = 0
    /\ child = NoChild
    /\ stdoutW = NewLimitedWriter(0)
    /\ stderrW = NewLimitedWriter(0)
    /\ now = 0
    /\ mpc = "idle"
    /\ stats = NewProcessStats
    /\ monTimeout = 0
    /\ monLimitKB = 0
    /\ smu = "none"
    /\ doneClosed = FALSE
    /\ tpc = "idle"
    /\ timerAt = 0
    /\ spc = "idle"
    /\ memKB = [ok |-> FALSE, v |-> -1]

\* the variables of SpecDir while another specification runs
DirParked ==
    /\ baseExists = FALSE
    /\ wsDirs = {}
    /\ hpc = [r \in Runs |-> "idle"]
    /\ hid = [r \in Runs |-> "none"]
    /\ setups = 0
    /\ returnedExisting = FALSE
    /\ refused = FALSE

\* the variables of SpecCompare while another specification runs
CmpParked ==
    /\ cmpPc = "parked"
    /\ cmpExec = ZeroResult
    /\ cmpExpected = [given |-> FALSE, val |-> <<>>]
    /\ cmpResult = ZeroResult

\* the variables of SpecNorm while another specification runs
NormParked ==
    /\ normX = <<>>
    /\ normY = <<>>
    /\ normN = NormApplications

\* no limit computed yet
NoLimits == [deadline |-> 0, compileTimeout |-> 0, timeout |-> 0, memoryLimitKB |-> {}]

\* the variables of SpecApi while another specification runs
ApiParked ==
    /\ apiPc = "parked"
    /\ apiReq = [timeout |-> [given |-> FALSE, val |-> 0],
                 memoryLimit |-> [given |-> FALSE, val |-> {}]]
    /\ apiLang = [known |-> FALSE, timeoutSec |-> 0, compileTimeoutSec |-> 0]
    /\ apiCfg = [DefaultExecuteTimeLimit |-> 0, UserSpecifiedTimeout |-> FALSE,
                 DefaultExecuteMemoryLimit |-> {}, DefaultCompileTimeLimit |-> 0,
                 CompileTimeout |-> 0]
    /\ apiLimits = NoLimits

\* the variables of SpecLimits while another specification runs
LimParked ==
    /\ limPc = "parked"
    /\ limIn = [override |-> [given |-> FALSE, mb |-> 0], cfgTime |-> 0,
                userSpecified |-> FALSE, langTimeoutSec |-> 0, langMemoryMB |-> 0]
    /\ limOut = [maxMemoryKB |-> 0, timeoutDuration |-> 0, monitorTimeout |-> 0,
                 monitorLimitKB |-> 0]

\* the variables of SpecSec while another specification runs
SecParked ==
    /\ secPc = [r \in Runs |-> "parked"]
    /\ cgroupVersion = 1
    /\ cgroupDirs = {}
    /\ cleanupHandlers = <<>>
    /\ secLocal = [r \in Runs |-> <<>>]
    /\ secHist = [ran |-> {}, dropped |-> FALSE, foreign |-> FALSE, failed |-> {}]

\* the variables of SpecTree while another specification runs
TreeParked ==
    /\ trPc = "parked"
    /\ trProcs = [p \in {"main"} \cup Descendants |-> [state |-> "none", ppid |-> "none", holds |-> FALSE]]
    /\ trNow = 0
    /\ trMon = [g \in {"timer", "sampler"} |-> "parked"]
    /\ trMu = "none"
    /\ trChildren = NoChildren
    /\ trStats = [IsTimeout |-> FALSE, IsExceeded |-> FALSE]
    /\ trResult = "none"

\* the variables of SpecCompileOut while another specification runs
CompileOutParked ==
    /\ coPc = "parked"
    /\ coCfg = [MaxStdoutSize |-> 0, MaxStderrSize |-> 0]
    /\ coStdout = <<>>
    /\ coStderr = <<>>
    /\ coErr = "nil"
    /\ coResult = ZeroResult

\* no system call made yet
NoCall == [by |-> "none", name |-> "none", arg |-> {}, action |-> "none"]

\* the variables of SpecSeccomp while another specification runs
SeccompParked ==
    /\ scPc = "parked"
    /\ scProfile = [SeccompMode |-> "disabled", AllowedSyscalls |-> <<>>,
                    DisableNetwork |-> FALSE, DisableExec |-> FALSE]
    /\ scMaskFirst = TRUE
    /\ scFilter = [default |-> "none"]
    /\ scCall = NoCall

\* the variable of SpecMem while another specification runs
MemParked == hwm = 0

\* the variables of the single-component specifications while Spec or
\* SpecSink runs
PureParked == DirParked /\ CmpParked /\ NormParked /\ ApiParked /\ LimParked /\ SecParked /\ TreeParked /\ CompileOutParked /\ SeccompParked /\ MemParked

SinkInit ==
    /\ \E limit \in 0..MaxCap : sink = NewLimitedWriter(limit)
    /\ mu = "none"
    /\ wpc = [w \in Writers |-> "idle"]
    /\ wp = [w \in Writers |-> <<>>]
    /\ wlen = [w \in Writers |-> 0]
    /\ offered = 0
    /\ zeroAtCap = FALSE
    /\ calls = 0
    /\ RunInit
    /\ PureParked

SinkNext ==
    \/ \E w \in Writers : SinkLock(w)
    \/ \E w \in Writers : SinkCheck(w)
    \/ \E w \in Writers : SinkAppend(w)

\* one LimitedWriter and its concurrent callers
SpecSink == SinkInit /\ [][SinkNext]_vars

Init == RunInit /\ SinkParked /\ PureParked

Next ==
    \/ RunLookup \/ RunSetupDir \/ RunWriteSource \/ RunCompile \/ RunPrepare
    \/ ExecStart \/ ExecWait \/ ExecCollect \/ ExecCollectFallback
    \/ ExecCheckTimeout \/ ExecCheckMemory \/ ExecClassify
    \/ RunCompare \/ RunCleanup
    \/ MonitorCall \/ MonitorSend
    \/ TimerArm \/ TimerFire \/ TimerCancel \/ TimerSet \/ TimerKill
    \/ SamplerTick \/ SamplerSample \/ SamplerUpdate \/ SamplerKill \/ SamplerCancel
    \/ ChildAlloc \/ ChildExit
    \/ Tick \/ CtxExpire \/ CtxKill

\* one call of RunWithConfig
Spec == Init /\ [][Next]_vars

\* no run has called SetupHostRunDir; the base directory may be there already
DirInit ==
    /\ baseExists \in BOOLEAN
    /\ wsDirs = {}
    /\ hpc = [r \in Runs |-> "idle"]
    /\ hid = [r \in Runs |-> "none"]
    /\ setups = 0
    /\ returnedExisting = FALSE
    /\ refused = FALSE
    /\ RunInit
    /\ SinkParked
    /\ CmpParked
    /\ NormParked
    /\ ApiParked
    /\ LimParked
    /\ SecParked
    /\ TreeParked
    /\ CompileOutParked
    /\ SeccompParked
    /\ MemParked

DirNext ==
    \/ \E r \in Runs : SetupNewID(r)
    \/ \E r \in Runs : SetupMkdirAll(r)
    \/ \E r \in Runs : SetupMkdir(r)
    \/ \E r \in Runs : SetupCleanup(r)

\* the runs of one process, sequential or concurrent, over one base directory
SpecDir == DirInit /\ [][DirNext]_vars

\* Execute has returned and line 272 has run
CompareInit ==
    /\ cmpPc = "ready"
    /\ \E status \in ExecuteStatuses, out \in CmpStrings :
          cmpExec = ExecResultOf(status, out)
    /\ cmpExpected \in {[given |-> FALSE, val |-> <<>>]}
                        \cup {[given |-> TRUE, val |-> v] : v \in CmpStrings}
    /\ cmpResult = ZeroResult
    /\ RunInit
    /\ SinkParked
    /\ DirParked
    /\ NormParked
    /\ ApiParked
    /\ LimParked
    /\ SecParked
    /\ TreeParked
    /\ CompileOutParked
    /\ SeccompParked
    /\ MemParked

CompareNext == CompareRun

\* the comparison step for every input of the bounded sets
SpecCompare == CompareInit /\ [][CompareNext]_vars

\* a string, not yet normalized
NormInit ==
    /\ normX \in SeqsUpTo(NormChars, MaxNormLen)
    /\ normY = normX
    /\ normN = 0
    /\ RunInit
    /\ SinkParked
    /\ DirParked
    /\ CmpParked
    /\ ApiParked
    /\ LimParked
    /\ SecParked
    /\ TreeParked
    /\ CompileOutParked
    /\ SeccompParked
    /\ MemParked

NormNext == NormalizeAgain

\* NormalizeString iterated on every string of the bounded set
SpecNorm == NormInit /\ [][NormNext]_vars

\* a request arrives
ApiInit ==
    /\ apiPc = "ready"
    /\ \E timeout \in ReqTimeouts, memoryLimit \in ReqMemoryLimits :
          apiReq = [timeout |-> timeout, memoryLimit |-> memoryLimit]
    /\ apiLang \in ApiLanguages
    /\ apiCfg = [DefaultExecuteTimeLimit |-> 0, UserSpecifiedTimeout |-> FALSE,
                 DefaultExecuteMemoryLimit |-> {},
                 DefaultCompileTimeLimit |-> DefaultCompileTimeLimitSec,
                 CompileTimeout |-> DefaultCompileTimeLimitSec]
    /\ apiLimits = NoLimits
    /\ RunInit
    /\ SinkParked
    /\ DirParked
    /\ CmpParked
    /\ NormParked
    /\ LimParked
    /\ SecParked
    /\ TreeParked
    /\ CompileOutParked
    /\ SeccompParked
    /\ MemParked

ApiNext == ApiExecute \/ ApiRunLimits

\* one request, from SandboxAPI.Execute to the limits of the monitor
SpecApi == ApiInit /\ [][ApiNext]_vars

LimitsInit ==
    /\ limPc = "ready"
    /\ limIn \in LimitInputs
    /\ limOut = [maxMemoryKB |-> 0, timeoutDuration |-> 0, monitorTimeout |-> 0,
                 monitorLimitKB |-> 0]
    /\ RunInit
    /\ SinkParked
    /\ DirParked
    /\ CmpParked
    /\ NormParked
    /\ ApiParked
    /\ SecParked
    /\ TreeParked
    /\ CompileOutParked
    /\ SeccompParked
    /\ MemParked

LimitsNext == LimitsPrepare \/ LimitsMonitor

\* the limits of one run, for every configuration of the bounded sets
SpecLimits == LimitsInit /\ [][LimitsNext]_vars

SecInit ==
    /\ secPc = [r \in Runs |-> "idle"]
    /\ cgroupVersion \in {1, 2}
    /\ cgroupDirs = {}
    /\ cleanupHandlers = <<>>
    /\ secLocal = [r \in Runs |-> <<>>]
    /\ secHist = [ran |-> {}, dropped |-> FALSE, foreign |-> FALSE, failed |-> {}]
    /\ RunInit
    /\ SinkParked
    /\ DirParked
    /\ CmpParked
    /\ NormParked
    /\ ApiParked
    /\ LimParked
    /\ TreeParked
    /\ CompileOutParked
    /\ SeccompParked
    /\ MemParked

SecNext ==
    \/ \E r \in Runs : SecSetup(r)
    \/ \E r \in Runs : SecRegisterRead(r)
    \/ \E r \in Runs : SecRegisterWrite(r)
    \/ \E r \in Runs : SecCleanupRun(r)
    \/ \E r \in Runs : SecCleanupReset(r)

\* concurrent runs that set up a cgroup, register its cleanup and call Cleanup
SpecSec == SecInit /\ [][SecNext]_vars

TreeInit ==
    /\ trPc = "wait"
    /\ trProcs = [p \in TreeProcs |->
                    IF p = "main" THEN [state |-> "alive", ppid |-> "go", holds |-> TRUE]
                    ELSE NoProc]
    /\ trNow = 0
    /\ trMon = [g \in {"timer", "sampler"} |-> "select"]
    /\ trMu = "none"
    /\ trChildren = NoChildren
    /\ trStats = [IsTimeout |-> FALSE, IsExceeded |-> FALSE]
    /\ trResult = "none"
    /\ RunInit
    /\ SinkParked
    /\ DirParked
    /\ CmpParked
    /\ NormParked
    /\ ApiParked
    /\ LimParked
    /\ SecParked
    /\ CompileOutParked
    /\ SeccompParked
    /\ MemParked

TreeNext ==
    \/ \E p \in TreeProcs, d \in Descendants : TreeFork(p, d)
    \/ \E d \in Descendants : TreeClose(d)
    \/ \E p \in TreeProcs : TreeExit(p)
    \/ TreeTick
    \/ TreeTimerFire
    \/ TreeTimerCancel
    \/ TreeSamplerExceed
    \/ TreeSamplerStop
    \/ \E g \in {"timer", "sampler"} : TreeList(g)
    \/ \E g \in {"timer", "sampler"} : TreeKillChild(g)
    \/ \E g \in {"timer", "sampler"} : TreeKillParent(g)
    \/ TreeWait
    \/ TreeVerdict

\* one execution of a child that never exits on its own
SpecTree == TreeInit /\ [][TreeNext]_vars

CompileOutInit ==
    /\ coPc = "running"
    /\ coCfg \in [MaxStdoutSize : 1..MaxCompileCap, MaxStderrSize : 1..MaxCompileCap]
    /\ coStdout = <<>>
    /\ coStderr = <<>>
    /\ coErr = "nil"
    /\ coResult = ZeroResult
    /\ RunInit
    /\ SinkParked
    /\ DirParked
    /\ CmpParked
    /\ NormParked
    /\ ApiParked
    /\ LimParked
    /\ SecParked
    /\ TreeParked
    /\ SeccompParked
    /\ MemParked

CompileOutNext ==
    \/ CoWrite
    \/ CoReturn

\* the compile step with a compiler that writes any amount of output
SpecCompileOut == CompileOutInit /\ [][CompileOutNext]_vars

SeccompInit ==
    /\ scPc = "new"
    /\ scProfile \in [SeccompMode : {"strict", "filtered"}, AllowedSyscalls : SyscallLists,
                      DisableNetwork : BOOLEAN, DisableExec : BOOLEAN]
    /\ scMaskFirst \in BOOLEAN
    /\ scFilter = [default |-> "none"]
    /\ scCall = NoCall
    /\ RunInit
    /\ SinkParked
    /\ DirParked
    /\ CmpParked
    /\ NormParked
    /\ ApiParked
    /\ LimParked
    /\ SecParked
    /\ TreeParked
    /\ CompileOutParked
    /\ MemParked

SeccompNext ==
    \/ ScAllowList
    \/ ScSocketRules
    \/ ScExecRules
    \/ ScLoad
    \/ ScSyscall

\* ApplySeccompFilters for each profile, and system calls under the filter
SpecSeccomp == SeccompInit /\ [][SeccompNext]_vars

MemInit ==
    /\ pc = "wait"
    /\ result = ZeroResult
    /\ dirCreated = TRUE
    /\ dirExists = TRUE
    /\ cleanups = 0
    /\ removed = FALSE
    /\ compileOutput = ""
    /\ compileErr = "nil"
    /\ execTimeout \in {EffectiveExecTimeout(t) : t \in TimeLimits}
    /\ memLimitKB \in {m \div 1024 : m \in MemoryLimits}
    /\ startTime = 0
    /\ duration = 0
    /\ runErr = "nil"
    /\ fallback = FALSE
    /\ bothAtVerdict = FALSE
    /\ ctxExpired = FALSE
    /\ profilesApplied = 0
    /\ child = [state |-> "running", mem |-> 1, exitCode |-> 0]
    /\ hwm = 1
    /\ stdoutW = NewLimitedWriter(StdoutCap)
    /\ stderrW = NewLimitedWriter(StderrCap)
    /\ now = 0
    /\ mpc = "launched"
    /\ stats = NewProcessStats
    /\ monTimeout = 0
    /\ monLimitKB = 0
    /\ smu = "none"
    /\ doneClosed = FALSE
    /\ tpc = "idle"
    /\ timerAt = 0
    /\ spc = "idle"
    /\ memKB = NoSample
    /\ SinkParked
    /\ DirParked
    /\ CmpParked
    /\ NormParked
    /\ ApiParked
    /\ LimParked
    /\ SecParked
    /\ TreeParked
    /\ CompileOutParked
    /\ SeccompParked

MemNext ==
    \/ MemChildAlloc \/ ChildExit
    \/ MonitorCall \/ MonitorSend
    \/ TimerArm \/ TimerFire \/ TimerCancel \/ TimerSet \/ TimerKill
    \/ SamplerTick \/ SamplerSample \/ SamplerUpdate \/ SamplerKill \/ SamplerCancel
    \/ Tick
    \/ ExecWait \/ ExecCollect \/ ExecCollectFallback
    \/ ExecCheckTimeout \/ ExecCheckMemory \/ ExecClassify

\* Execute once execCmd.Start() has succeeded, under a context that is not
\* cancelled
SpecMem == MemInit /\ [][MemNext]_vars

\* the goroutines of the sandbox are scheduled fairly and the clock advances;
\* nothing obliges the processes to fork, to close their pipes or to exit, nor
\* the memory of the tree to exceed the limit
TreeFairness ==
    /\ WF_vars(TreeTick)
    /\ WF_vars(TreeTimerFire)
    /\ WF_vars(TreeTimerCancel)
    /\ WF_vars(TreeSamplerStop)
    /\ \A g \in {"timer", "sampler"} :
          WF_vars(TreeList(g)) /\ WF_vars(TreeKillChild(g)) /\ WF_vars(TreeKillParent(g))
    /\ WF_vars(TreeWait)
    /\ WF_vars(TreeVerdict)

SpecTreeFair == TreeInit /\ [][TreeNext]_vars /\ TreeFairness

(***************************************************************************)
(* Properties of the LimitedWriter (SpecSink).                             *)
(***************************************************************************)
\* C2: whatever Write calls were made, sequentially or by concurrent callers,
\* the bytes stored in the buffer are as many as the written counter says, and
\* never more than the cap.
C2_BufferWithinCap ==
    /\ Len(sink.buf) = sink.written
    /\ sink.written <= sink.limit

\* a sink with a positive cap that is full after a truncated or refused write,
\* two or more calls having been made
C2_Witness ==
    /\ SinkQuiescent
    /\ calls >= 2
    /\ sink.limit > 0
    /\ sink.written = sink.limit
    /\ sink.Exceeded

\* C3 as stated: with no Write in progress, the overflow flag is set if and only
\* if the bytes offered by all the Write calls together are more than the cap.
C3_ExceededIffOfferedOverCap ==
    SinkQuiescent => (sink.Exceeded <=> offered > sink.limit)

\* C3: with no Write in progress, the overflow flag is set if and only if more
\* bytes than the cap were offered in total, or a zero-length Write was made
\* while the sink was already full (a cap of 0 is full from the start).
C3_ExceededIffOverCapOrEmptyWriteWhenFull ==
    SinkQuiescent => (sink.Exceeded <=> (offered > sink.limit \/ zeroAtCap))

\* exactly the cap has been offered and the flag is not set
C3_WitnessExactlyCap ==
    /\ SinkQuiescent
    /\ sink.limit > 0
    /\ offered = sink.limit
    /\ calls >= 1
    /\ ~sink.Exceeded

(***************************************************************************)
(* Properties of one call of RunWithConfig (Spec).                         *)
(***************************************************************************)
\* the statuses a caller may be given
Verdicts ==
    {StatusAccepted, StatusWrongAnswer, StatusCompileError, StatusRuntimeError,
     StatusTimeLimitExceeded, StatusMemoryLimitExceeded, StatusOutputLimitExceeded,
     StatusSandboxError}

\* Execute has returned a result built after Wait (lines 133-206), and
\* RunWithConfig has not yet touched it
ExecuteReturned == pc = "compare" /\ child.state = "reaped"

\* the result's verdict was taken from the monitor's IsTimeout flag (line 143)
TimedOutByMonitor ==
    /\ result.Status = StatusTimeLimitExceeded
    /\ result.Error = {"monitor: time limit exceeded"}

\* C1: a run in which IsTimeout and IsExceeded were both set when Execute began
\* its verdict checks gets Time Limit Exceeded, from Execute and from
\* RunWithConfig, whatever the sinks, the exit code and the expected output are.
C1_TimeoutBeforeMemory ==
    bothAtVerdict => result.Status = StatusTimeLimitExceeded

\* RunWithConfig has returned from a run that found both flags set
C1_Witness ==
    /\ pc = "done"
    /\ bothAtVerdict
    /\ result.Status = StatusTimeLimitExceeded

\* the case of C4: Execute took its verdict from neither monitor flag nor from
\* the context, a sink overflowed and the exit code is not zero
C4_Case ==
    /\ ExecuteReturned
    /\ result.Status \notin {StatusTimeLimitExceeded, StatusMemoryLimitExceeded}
    /\ stdoutW.Exceeded \/ stderrW.Exceeded
    /\ child.exitCode # 0

C5_StatusIsAVerdict ==
    pc = "done" => result.Status \in Verdicts

\* a return from the execute path, after the comparison and the cleanup
C5_Witness ==
    /\ pc = "done"
    /\ cleanups = 1
    /\ child.state = "reaped"
    /\ result.Status = StatusWrongAnswer

\* C6: a result whose verdict came from the IsTimeout flag has a TimeUsedMillis
\* of at least the limit Execute enforced.
C6_TimedOutUsedAtLeastLimit ==
    (ExecuteReturned /\ TimedOutByMonitor)
        => result.TimeUsedMillis >= Milliseconds(execTimeout)

\* C7: a result whose verdict came from the IsExceeded flag has a MemoryUsedKB
\* of at least the cap the monitor was given.
C7_ExceededUsedAtLeastCap ==
    (ExecuteReturned /\ result.Status = StatusMemoryLimitExceeded)
        => result.MemoryUsedKB >= memLimitKB

\* C8: a child that ended on its own, with Wait returning before the limit had
\* elapsed and the context still alive, is not given Time Limit Exceeded.
C8_EarlyExitIsNotTimeLimit ==
    (/\ ExecuteReturned
     /\ runErr # "signal: killed"
     /\ duration < execTimeout
     /\ ~ctxExpired)
        => result.Status # StatusTimeLimitExceeded

\* C9: the shared ProcessStats never has IsTimeout and IsExceeded both set.
C9_FlagsExclusive == ~(stats.IsTimeout /\ stats.IsExceeded)

C11_WorkspaceNeverShared ==
    /\ ~returnedExisting
    /\ \A r1 \in Runs : \A r2 \in Runs :
          (r1 # r2 /\ hpc[r1] = "held" /\ hpc[r2] = "held") => hid[r1] # hid[r2]
    /\ \A r \in Runs : hpc[r] = "held" => hid[r] \in wsDirs

\* two runs hold a workspace at once after a call drew an id whose directory
\* existed and was refused
C11_Witness ==
    /\ refused
    /\ \A r \in Runs : hpc[r] = "held"

(***************************************************************************)
(* Properties of the stages before Execute (Spec).                         *)
(***************************************************************************)
\* C12: once the compile stage has failed (timeout, non-zero exit, or missing
\* artifact of a compiled language) the result is Compile Error with the
\* captured compile output attached, and from then on no run-command child
\* exists and no goroutine of the monitor has been created.
C12_CompileFailureNeverExecutes ==
    compileErr # "nil" =>
       /\ result.Status = StatusCompileError
       /\ result.CompileOutput = compileOutput
       /\ pc \in {"cleanup", "done"}
       /\ child = NoChild
       /\ mpc = "idle" /\ tpc = "idle" /\ spc = "idle"

\* a compiled language whose compile command succeeded without leaving the
\* binary: RunWithConfig has returned
C12_Witness ==
    /\ compileErr = "notfound"
    /\ pc = "done"
    /\ compileOutput = "diagnostics"

\* C13: every Compile Error result carries the whole captured compile output in
\* CompileOutput; its Error is that output when the failure is not a timeout,
\* and the timeout message, not the output, when it is.
C13_CompileErrorFields ==
    result.Status = StatusCompileError =>
       /\ compileErr # "nil"
       /\ result.CompileOutput = compileOutput
       /\ compileErr # "timeout" => result.Error = {compileOutput}
       /\ compileErr = "timeout" => result.Error = {"local compilation timed out"}

\* a compile timeout that had printed diagnostics
C13_Witness ==
    /\ result.Status = StatusCompileError
    /\ compileErr = "timeout"
    /\ compileOutput = "diagnostics"
    /\ pc = "done"

\* the failures of RunWithConfig's own steps that C14 names: unknown language,
\* workspace creation, source write, run command template
SetupFailures ==
    {"language configuration not found",
     "failed to manage host temporary directory",
     "failed to write source file",
     "failed to process run command template"}

\* C14: a run that fails because the language is unknown, the workspace cannot
\* be created, the source cannot be written or the run command template is
\* empty or blank has status Sandbox Error and exit code -1, and no user
\* program was started; for an unknown language no workspace directory was
\* created either.
C14_SetupFailureIsSandboxError ==
    /\ result.Error \cap SetupFailures # {} =>
          /\ result.Status = StatusSandboxError
          /\ result.ExitCode = -1
          /\ child = NoChild
          /\ mpc = "idle" /\ tpc = "idle" /\ spc = "idle"
    /\ "language configuration not found" \in result.Error =>
          /\ ~dirCreated
          /\ ~dirExists
          /\ cleanups = 0

\* RunWithConfig has returned after the run command template of a language
\* that compiled turned out blank
C14_Witness ==
    /\ pc = "done"
    /\ result.Error = {"failed to process run command template"}
    /\ result.CompileOutput = "diagnostics"
    /\ cleanups = 1

\* C15: whenever the child of the run exists, the security profile has been
\* applied to it exactly once.  Execute creates the child with execCmd.Start()
\* and neither Execute nor RunWithConfig calls security.SetupSecurity, so the
\* count stays at zero.
C15_ProfileAppliedOnce ==
    child # NoChild => profilesApplied = 1

(***************************************************************************)
(* Properties of the output comparison (SpecCompare).                      *)
(***************************************************************************)
\* C16: the returned status is Wrong Answer exactly when Execute returned
\* Accepted, an expected output was given, and the normalized stdout differs
\* from the normalized expected output.
C16_WrongAnswerIff ==
    cmpPc = "done" =>
       (cmpResult.Status = StatusWrongAnswer
          <=> /\ cmpExec.Status = StatusAccepted
              /\ cmpExpected.given
              /\ NormalizeString(cmpExec.Stdout) # NormalizeString(cmpExpected.val))

\* Wrong Answer for an accepted run whose stdout differs from the expected
\* output by more than white space
C16_Witness ==
    /\ cmpPc = "done"
    /\ cmpResult.Status = StatusWrongAnswer
    /\ cmpExec.Stdout = <<"a", " ">>
    /\ cmpExpected.val = <<"\r", "\n">>

\* C17: the comparison step leaves stdout, stderr, the exit code, the time and
\* memory figures and the compile output of the result as Execute (and line
\* 272) set them; stdout is returned raw, not normalized.
C17_ComparisonKeepsRawFields ==
    cmpPc = "done" =>
       /\ cmpResult.Stdout = cmpExec.Stdout
       /\ cmpResult.Stderr = cmpExec.Stderr
       /\ cmpResult.ExitCode = cmpExec.ExitCode
       /\ cmpResult.TimeUsedMillis = cmpExec.TimeUsedMillis
       /\ cmpResult.MemoryUsedKB = cmpExec.MemoryUsedKB
       /\ cmpResult.CompileOutput = cmpExec.CompileOutput
       /\ cmpResult.Status # StatusWrongAnswer => cmpResult = cmpExec

\* Wrong Answer returned with a stdout that normalization would change
C17_Witness ==
    /\ cmpPc = "done"
    /\ cmpResult.Status = StatusWrongAnswer
    /\ cmpResult.Stdout = <<"a", "\r">>
    /\ NormalizeString(cmpResult.Stdout) = <<"a">>

(***************************************************************************)
(* Properties of NormalizeString (SpecNorm).                               *)
(***************************************************************************)
\* C18: normalizing a normalized string gives the same string:
\* NormalizeString(NormalizeString(x)) = NormalizeString(x) for every x made
\* of '\r', '\n', blanks, tabs and an ordinary character.
C18_NormalizeIdempotent ==
    normN = 2 => normY = NormalizeString(normX)

\* a string with a carriage return and a tab inside was normalized twice, to
\* two lines
C18_Witness ==
    /\ normN = 2
    /\ normX = <<"a", "\r", "\t", "a">>
    /\ normY = <<"a", "\n", "a">>

(***************************************************************************)
(* Properties of the limits of a request (SpecApi).                        *)
(***************************************************************************)
\* C19: for a request with a timeout t > 0 the run is monitored with a limit of
\* min(t, 30) seconds and customCfg.UserSpecifiedTimeout is true.  Fails for
\* t > 30: SandboxAPI.Execute ignores such a timeout, so the limit is the one
\* of the language and the flag is false.
C19_TimeoutClampedTo30 ==
    (apiPc = "monitored" /\ apiReq.timeout.given /\ apiReq.timeout.val > 0) =>
       /\ apiLimits.timeout = IF apiReq.timeout.val <= MaxCustomTimeout
                              THEN apiReq.timeout.val ELSE MaxCustomTimeout
       /\ apiCfg.UserSpecifiedTimeout

\* min(m, 4096) MB in KB, for a positive m
ClampedCapKB(m) ==
    IF LessEq64(m, {12}) THEN ShiftLeft(m, KBShift) ELSE {22}

\* C20: for a request with a memoryLimit m > 0 the cap MonitorProcess receives
\* is min(m, 4096) MB in KB, a positive number.  Fails when m * 1024 * 1024
\* leaves the int64 range: the wrapped product is compared with 4 GB.
C20_MemoryCapClamped ==
    (apiPc = "monitored" /\ apiReq.memoryLimit.given /\ IsPositive(apiReq.memoryLimit.val)) =>
       /\ apiLimits.memoryLimitKB = ClampedCapKB(apiReq.memoryLimit.val)
       /\ IsPositive(apiLimits.memoryLimitKB)

\* C35: the deadline SandboxAPI.Execute gives the context of a run is the
\* compile timeout the runner enforces for the language, plus the timeout the
\* monitor enforces, plus 5 seconds.
C35_DeadlineIsSumOfEnforced ==
    apiPc = "monitored" =>
       apiLimits.deadline = apiLimits.compileTimeout + apiLimits.timeout + DeadlineBufferSec

(***************************************************************************)
(* Properties of the limits of a run (SpecLimits).                         *)
(***************************************************************************)
\* C21: with a positive cfg.DefaultExecuteTimeLimit, the timeout MonitorProcess
\* receives is that value when cfg.UserSpecifiedTimeout is true, whatever the
\* language declares; otherwise it is the language's Run.TimeoutSec when that is
\* positive, and cfg.DefaultExecuteTimeLimit when it is not.
C21_MonitorTimeoutChoice ==
    (limPc = "monitored" /\ limIn.cfgTime > 0) =>
       limOut.monitorTimeout =
          IF limIn.userSpecified THEN limIn.cfgTime
          ELSE IF limIn.langTimeoutSec > 0 THEN limIn.langTimeoutSec
          ELSE limIn.cfgTime

\* a user-specified timeout won over a different timeout of the language
C21_Witness ==
    /\ limPc = "monitored"
    /\ limIn.userSpecified
    /\ limIn.cfgTime = 3
    /\ limIn.langTimeoutSec = 2
    /\ limOut.monitorTimeout = 3

\* the effective memory limit of C22, in KB: the request's override, else the
\* language's limit when positive, else the global default
EffectiveMemoryKB ==
    IF limIn.override.given THEN limIn.override.mb * BytesPerKB
    ELSE IF limIn.langMemoryMB > 0 THEN limIn.langMemoryMB * BytesPerKB
    ELSE DefaultMemoryLimitMB * BytesPerKB

\* C22: the cap MonitorProcess receives and the value substituted for
\* {{MAX_MEM}} are both the effective memory limit (override, else language,
\* else default), so they are equal.  Fails: the run command gets the
\* language's limit even when the request overrides it, and the monitor gets
\* cfg.DefaultExecuteMemoryLimit, never the language's limit.
C22_OneEffectiveMemoryLimit ==
    limPc = "monitored" =>
       /\ limOut.monitorLimitKB = EffectiveMemoryKB
       /\ limOut.maxMemoryKB = EffectiveMemoryKB

(***************************************************************************)
(* Properties of the cgroups and of the cleanup registry (SpecSec).        *)
(***************************************************************************)
\* C23: once the cleanup handler of a group has run, no directory of that group
\* ID exists, on a cgroup v1 host and on a cgroup v2 host.  Fails on v2: both
\* setup functions store the same BasePath, so CleanupCgroups always takes the
\* v1 branch and leaves /sys/fs/cgroup/croj/<ID> in place.
C23_CleanupRemovesGroupDirs ==
    \A id \in secHist.ran : \A d \in cgroupDirs : d[2] # id

\* C24: no registered handler is dropped without having run, and no run's
\* Cleanup runs the handler of another run whose child is still running.
\* Fails: cleanupHandlers is one package variable, appended to without a lock
\* and run as a whole by every Cleanup.
C24_NoCrossRunSharing ==
    /\ ~secHist.dropped
    /\ ~secHist.foreign

\* C38: when SetupSecurity returned an error to a run, no cgroup directory
\* of that run's group is left once the run's call of Cleanup has completed.
C38_FailedSetupLeavesNoGroup ==
    \A r \in Runs :
        (r \in secHist.failed /\ secPc[r] = "done") =>
            \A d \in cgroupDirs : d[2] # r

(***************************************************************************)
(* Termination of an execution and of its monitor (SpecTreeFair).          *)
(***************************************************************************)
\* C25: for a child that never exits on its own, with or without descendants
\* of any depth that keep its stdout/stderr open, the run eventually returns
\* with Time Limit Exceeded or Memory Limit Exceeded.  Fails:
\* terminateProcessTree kills the direct children listed by getChildProcesses
\* and the main process only; a deeper descendant, or one forked after the
\* listing, keeps the pipes open and Wait never returns.
C25_RunEventuallyReturns ==
    [](trProcs["main"].state # "exited") =>
        <>(trPc = "returned"
           /\ trResult \in {StatusTimeLimitExceeded, StatusMemoryLimitExceeded})

(***************************************************************************)
(* The size of the compile diagnostics (SpecCompileOut).                   *)
(***************************************************************************)
\* C26: the compile diagnostics of a Compile Error result, in CompileOutput
\* and in Error, are never longer than the configured caps allow (at most
\* MaxStdoutSize bytes of stdout and MaxStderrSize bytes of stderr).  Fails:
\* the compiler's streams go to plain bytes.Buffers, which no cap bounds.
C26_CompileOutputBounded ==
    (coPc = "returned" /\ coErr # "nil") =>
        /\ Len(coResult.CompileOutput) <= coCfg.MaxStdoutSize + coCfg.MaxStderrSize
        /\ coErr # "timeout" =>
              \A e \in coResult.Error :
                  Len(e) <= coCfg.MaxStdoutSize + coCfg.MaxStderrSize

(***************************************************************************)
(* The socket policy of the seccomp filter (SpecSeccomp).                  *)
(***************************************************************************)
\* C27: under a filter built for a profile with DisableNetwork, a socket call
\* is allowed if and only if its address family is AF_UNIX.  Fails: with
\* socket on the allow-list the unconditional allow rule is added first and
\* the conditional rules change nothing.
C27_SocketOnlyLocal ==
    (/\ scPc = "loaded" /\ scProfile.DisableNetwork
     /\ scCall.by = LoadedIn /\ scCall.name = "socket") =>
        (scCall.action = "ActAllow" <=> scCall.arg = AF_UNIX)


\* C30: once Execute has returned, which closes monitorDone, the timer and the
\* sampler goroutine both eventually terminate, whether the child exited on its
\* own or was killed and whichever case their selects take.
C30_MonitorTerminates ==
    (trPc = "returned") ~> (trMon["timer"] = "done" /\ trMon["sampler"] = "done")

\* Execute has returned from a child that exited on its own before the timer
\* expired, and both goroutines have ended through <-done
C30_Witness ==
    /\ trPc = "returned"
    /\ trProcs["main"].state = "exited"
    /\ ~trStats.IsTimeout
    /\ ~trStats.IsExceeded
    /\ trMon["timer"] = "done"
    /\ trMon["sampler"] = "done"


(***************************************************************************)
(* The monitor's flags and the record Execute reads (Spec).                *)
(***************************************************************************)
\* the child was killed and the context had not expired: it was killed by
\* terminateProcessTree, called by the timer or by the sampler
KilledByMonitor ==
    /\ ExecuteReturned
    /\ runErr = "signal: killed"
    /\ ~ctxExpired

\* C28 as stated: a child killed by the monitor is reported as Time Limit
\* Exceeded or Memory Limit Exceeded.
C28_MonitorKillIsLimitVerdict ==
    KilledByMonitor =>
        result.Status \in {StatusTimeLimitExceeded, StatusMemoryLimitExceeded}

\* C28: a child killed by the monitor is reported as Time Limit Exceeded or
\* Memory Limit Exceeded when Execute received the monitor's record; when it
\* fabricated one after the 100 ms wait, the flags are not in it.
C28_MonitorKillWithStatsIsLimitVerdict ==
    (KilledByMonitor /\ ~fallback) =>
        result.Status \in {StatusTimeLimitExceeded, StatusMemoryLimitExceeded}

\* the sampler killed the child and Execute returned Memory Limit Exceeded
C28_Witness ==
    /\ KilledByMonitor
    /\ ~fallback
    /\ stats.IsExceeded
    /\ result.Status = StatusMemoryLimitExceeded


\* Execute holds the record it received over resultChan and has not yet made
\* the last of its reads of the flags
ReadingStats == pc \in {"checkTimeout", "checkMemory"} /\ ~fallback

\* C29: the record reaches Execute only after the timer and the sampler have
\* ended, so no step changes it while Execute reads it.  Fails: MonitorProcess
\* returns the record as soon as it has started the two goroutines.
C29_NoWriteWhileExecuteReads ==
    [][ReadingStats => stats' = stats]_vars


(***************************************************************************)
(* terminateProcessTree (SpecTreeFair).                                    *)
(***************************************************************************)
\* C31: terminateProcessTree kills the main process only after it has tried
\* to kill every child it listed, and it does not return without having
\* killed the main process, whether or not the listing or a child's kill
\* failed.
C31_ChildrenFirstParentAlways ==
    [][\A g \in {"timer", "sampler"} :
          /\ (trMon[g] = "kill" /\ trProcs["main"].state = "alive"
                /\ trProcs'["main"].state = "dead") => trChildren.listed = {}
          /\ (trMon[g] = "kill" /\ trMon'[g] = "done") =>
                trProcs'["main"].state # "alive"]_vars

\* the timer's terminateProcessTree has returned: the kill of a listed child
\* had failed and the main process was killed all the same
C31_Witness ==
    /\ trMon["timer"] = "done"
    /\ trStats.IsTimeout
    /\ trChildren.failed # {}
    /\ trProcs["main"].state = "dead"


\* C32: when terminateProcessTree completes without an error (the listing
\* succeeded and no kill failed), no process descended from the main process
\* is alive, whatever the tree did meanwhile.
C32_NoDescendantSurvives ==
    [][\A g \in {"timer", "sampler"} :
          (/\ trMon[g] = "kill" /\ trMon'[g] = "done"
           /\ ~trChildren.err /\ trChildren.failed = {}) =>
               \A d \in Descendants : trProcs'[d].state # "alive"]_vars


(***************************************************************************)
(* The monitor and the reaped pid (Spec).                                  *)
(***************************************************************************)
\* C33: neither the timer nor the sampler calls terminateProcessTree(pid)
\* once Wait has reaped the child: no kill is sent to a pid that no longer
\* names the child.
C33_NoKillAfterReap ==
    [][((tpc = "kill" /\ tpc' = "done") \/ (spc = "kill" /\ spc' = "done")) =>
           child.state # "reaped"]_vars


C36_FilterOnChildOnly ==
    scPc = "loaded" =>
       /\ scCall.by = "supervisor" => scCall.action = "ActAllow"
       /\ scCall.by = "child" =>
             scCall.action = FilterAction(scFilter, scCall.name, scCall.arg, scMaskFirst)


(***************************************************************************)
(* The Accepted verdict (Spec).                                            *)
(***************************************************************************)
\* C37: when Execute gives the verdict Accepted, the child's exit code is 0,
\* Wait returned no error, neither sink overflowed, the context's deadline has
\* not passed, and neither flag of the monitor's record is set.
C37_AcceptedMeansCleanRun ==
    [][(result'.Status = StatusAccepted /\ result.Status # StatusAccepted) =>
          /\ child.exitCode = 0 /\ result'.ExitCode = 0
          /\ runErr = "nil"
          /\ ~stdoutW.Exceeded /\ ~stderrW.Exceeded
          /\ ~ctxExpired
          /\ ~stats.IsTimeout /\ ~stats.IsExceeded]_vars


(***************************************************************************)
(* The missing binary (Spec).                                              *)
(***************************************************************************)
\* C39 as stated: after a compile whose binary is missing, the run is Compile
\* Error, nothing was executed, and the error message is that of
\* ErrBinaryNotFound, which names the missing binary.
C39_MessageNamesMissingBinary ==
    compileErr = "notfound" =>
        /\ result.Status = StatusCompileError
        /\ child = NoChild /\ mpc = "idle"
        /\ CompileErrMessage("notfound") \in result.Error

\* C39: after a compile whose binary is missing, the run is Compile Error,
\* nothing was executed, and both CompileOutput and Error hold the output of
\* the compile command; a compile that exits with status zero fails for a
\* missing binary exactly when the language is go or cpp.
C39_MissingBinaryIsCompileError ==
    /\ compileErr = "notfound" =>
          /\ result.Status = StatusCompileError
          /\ child = NoChild /\ mpc = "idle"
          /\ result.CompileOutput = compileOutput
          /\ result.Error = {compileOutput}
    /\ \A binaryExists \in BOOLEAN, isCompiledLang \in BOOLEAN :
          CompileErr("ok", binaryExists, isCompiledLang) =
             IF ~binaryExists /\ isCompiledLang THEN "notfound" ELSE "nil"

C39_Witness ==
    /\ compileErr = "notfound" /\ pc = "done" /\ cleanups = 1
    /\ result.Status = StatusCompileError /\ result.Error = {"diagnostics"}

====
